---- MODULE Spec2Model ----
(***************************************************************************)
(* Model of the static analysis pipeline of the Malicious APK Detection    *)
(* System: feature extraction (server/analyzer/apk_analyzer.py),           *)
(* certificate trust verification (APKAnalyzer.verify_source) and the      *)
(* malware classifier (server/analyzer/ml_predictor.py), the reputation     *)
(* lookup (server/analyzer/virustotal_checker.py) and the risk aggregation *)
(* of the scan handler (server/app.py).                                    *)
(*                                                                         *)
(* Real numbers are fixed-point hundredths: the value 1.0 is Unit, so a    *)
(* confidence of 0.40 is 40 and a feature of 49/50 is 98.  Python index k  *)
(* of a list is position k + 1 of the sequence (see At).                   *)
(***************************************************************************)
EXTENDS Integers, Sequences, FiniteSets, TLC

VARIABLES
  \* ---- feature extractor (APKAnalyzer._build_feature_vector / _build_minimal_feature_vector)
  path,                 \* "none" | "full" | "minimal": which builder produced features
  degraded,             \* TRUE when only the archive listing is available
  permissions,          \* the permission strings given to the builder
  components,           \* len() of the activities / services / receivers / providers lists
  suspicious_features,  \* the suspicious-indicator strings given to the builder
  file_list,            \* the archive listing given to the minimal builder
  features,             \* the feature vector returned
  \* ---- certificate trust verifier (APKAnalyzer.verify_source)
  cert_pc,              \* "idle" | "returned" | "raised": outcome of the verify_source call
  cert,                 \* the signing certificate as the parser sees it (and the clock)
  source_verification,  \* the dict verify_source returned
  \* ---- malware classifier (MalwarePredictor)
  pred_pc,              \* "new" | "ready" | "returned" | "raised"
  model_file,           \* "missing" | "corrupt" | "ok": the artifact at model_path
  model_available,      \* self.model_available
  model_response,       \* what the loaded model does on the call (it is opaque)
  accumulator,          \* the local risk_score of _predict_rule_based (-1: not computed)
  ml_result,            \* the dict predict returned
  calls,                \* how many calls of predict this predictor has served
  model_failures,       \* how many "ML prediction failed" lines _predict_with_model logged
  \* ---- reputation lookup and scan handler (VirusTotalChecker, app.scan_apk)
  scan_pc,              \* "idle" | "uploaded" | "scored" | "responded"
  androguard_available, \* APKAnalyzer.androguard_available
  vt_enabled,           \* VirusTotalChecker.enabled
  upload,               \* the uploaded package as the parsers see it
  vt_reply,             \* what the reputation service does on the request
  analysis_result,      \* the dict APKAnalyzer.analyze returned
  vt_result,            \* the dict check_hash returned
  scan_result,          \* the scan_result dict (risk_score, verdict, ...)
  scan_status,          \* HTTP status of the response of scan_apk (0: none yet)
  \* ---- scan store (DatabaseManager) and the clock
  clock,                \* the second datetime.now() and CURRENT_TIMESTAMP read
  rows,                 \* the rows of the scans table
  saves,                \* the save_scan calls made so far: argument and value returned
  fetched,              \* the last get_scan_by_hash call: argument and value returned
  \* ---- scan service (the requests app.scan_apk is serving)
  uploads,              \* the files of the upload folder: path -> bytes
  req                   \* per request: position in scan_apk and its local variables

extract_vars == <<path, degraded, permissions, components, suspicious_features, file_list, features>>

cert_vars == <<cert_pc, cert, source_verification>>

pred_vars ==
  <<pred_pc, model_file, model_available, model_response, accumulator, ml_result,
    calls, model_failures>>

scan_vars ==
  <<scan_pc, androguard_available, vt_enabled, upload, vt_reply, analysis_result,
    vt_result, scan_result, scan_status>>

store_vars == <<clock, rows, saves, fetched>>

server_vars == <<uploads, req>>

vars == <<extract_vars, cert_vars, pred_vars, scan_vars, store_vars, server_vars>>

\* ------------------------------------------------------------------ bounds

\* Total number of list items (permissions + indicators + non-empty component
\* lists, or archive entries) of one extractor input.
MaxItems == 2

\* Validity windows are sampled up to this many days on either side of the
\* 365-day and 3650-day thresholds.
MaxSlack == 1

\* A sampled feature vector has at most this many of the indices the
\* classifier reads set, or all but at most this many.
MaxSet == 3

\* The number of predict calls one predictor serves in a behaviour.
MaxCalls == 2

\* The longest dangerous-permission and suspicious-feature lists given to the
\* risk aggregator (the caps of their terms are reached at 5 and at 4).
MaxDangerous == 6

MaxSuspicious == 5

\* The seconds that pass while the store and the service are observed.
MaxTicks == 1

\* The number of save_scan calls made on the store.
MaxSaves == 3

\* ------------------------------------------------------------------ numbers

\* 1.0 in hundredths.
Unit == 100

Min(a, b) == IF a <= b THEN a ELSE b

Max(a, b) == IF a >= b THEN a ELSE b

\* n / cap as a float, in hundredths (exact for the caps 50, 20, 10).
Ratio(n, cap) == (n * Unit) \div cap

\* features[k] of the source.
At(f, k) == f[k + 1]

SeqsUpTo(S, n) == UNION {[1..k -> S] : k \in 0..n}

\* ------------------------------------------------------------------ strings

LowerChars == "abcdefghijklmnopqrstuvwxyz"

UpperChars == "ABCDEFGHIJKLMNOPQRSTUVWXYZ"

CharAt(s, i) == SubSeq(s, i, i)

UpChar(c) ==
  IF \E i \in 1..Len(LowerChars) : CharAt(LowerChars, i) = c
  THEN CharAt(UpperChars, CHOOSE i \in 1..Len(LowerChars) : CharAt(LowerChars, i) = c)
  ELSE c

LowChar(c) ==
  IF \E i \in 1..Len(UpperChars) : CharAt(UpperChars, i) = c
  THEN CharAt(LowerChars, CHOOSE i \in 1..Len(UpperChars) : CharAt(UpperChars, i) = c)
  ELSE c

\* str.upper()
RECURSIVE upper(_)
upper(s) == IF Len(s) = 0 THEN "" ELSE UpChar(CharAt(s, 1)) \o upper(SubSeq(s, 2, Len(s)))

\* str.lower()
RECURSIVE lower(_)
lower(s) == IF Len(s) = 0 THEN "" ELSE LowChar(CharAt(s, 1)) \o lower(SubSeq(s, 2, Len(s)))

\* sub in s
Contains(sub, s) ==
  \E i \in 1..(Len(s) - Len(sub) + 1) : SubSeq(s, i, i + Len(sub) - 1) = sub

\* s.split('.')[-1]
RECURSIVE LastSegment(_)
LastSegment(s) ==
  IF \E i \in 1..Len(s) : CharAt(s, i) = "."
  THEN LastSegment(SubSeq(s, (CHOOSE i \in 1..Len(s) : CharAt(s, i) = ".") + 1, Len(s)))
  ELSE s

\* ------------------------------------------------------------------ feature extractor

perm_features ==
  << "INTERNET", "SEND_SMS", "RECEIVE_SMS", "READ_SMS",
     "READ_CONTACTS", "WRITE_CONTACTS", "ACCESS_FINE_LOCATION",
     "ACCESS_COARSE_LOCATION", "RECORD_AUDIO", "CAMERA",
     "READ_PHONE_STATE", "CALL_PHONE", "READ_CALL_LOG",
     "WRITE_CALL_LOG", "INSTALL_PACKAGES", "DELETE_PACKAGES",
     "READ_EXTERNAL_STORAGE", "WRITE_EXTERNAL_STORAGE",
     "SYSTEM_ALERT_WINDOW", "REQUEST_INSTALL_PACKAGES",
     "BIND_DEVICE_ADMIN", "RECEIVE_BOOT_COMPLETED",
     "WAKE_LOCK", "DISABLE_KEYGUARD", "GET_TASKS",
     "BLUETOOTH", "BLUETOOTH_ADMIN", "NFC",
     "VIBRATE", "ACCESS_WIFI_STATE", "CHANGE_WIFI_STATE",
     "ACCESS_NETWORK_STATE", "CHANGE_NETWORK_STATE",
     "WRITE_SETTINGS", "EXPAND_STATUS_BAR", "FLASHLIGHT",
     "KILL_BACKGROUND_PROCESSES", "REBOOT", "SET_WALLPAPER",
     "USE_CREDENTIALS" >>

susp_flags ==
  << "dynamic code loading", "encryption", "native code",
     "reflection", "boot receiver", "sms receiver" >>

ActivitiesCap == 50

ServicesCap == 20

ReceiversCap == 20

ProvidersCap == 10

FeatureCount == 50

\* any(perm in str(p).upper() for p in permissions)
has_perm(perm, ups) == \E j \in 1..Len(ups) : Contains(perm, ups[j])

\* any(flag in str(s).lower() for s in suspicious_features)
has_flag(flag, lows) == \E j \in 1..Len(lows) : Contains(flag, lows[j])

\* min(len(xs) / cap, 1.0)
component_feature_unclamped(n, cap) == Ratio(n, cap)

component_feature(n, cap) == Min(Ratio(n, cap), Unit)

build_feature_vector(perms, comps, susp) ==
  LET ups  == [j \in 1..Len(perms) |-> upper(perms[j])]
      lows == [j \in 1..Len(susp) |-> lower(susp[j])]
  IN  [i \in 1..Len(perm_features) |->
         IF has_perm(perm_features[i], ups) THEN Unit ELSE 0]
      \o << component_feature(comps.activities, ActivitiesCap),
            component_feature(comps.services, ServicesCap),
            component_feature(comps.receivers, ReceiversCap),
            component_feature(comps.providers, ProvidersCap) >>
      \o [i \in 1..Len(susp_flags) |->
            IF has_flag(susp_flags[i], lows) THEN Unit ELSE 0]

\* any(token in f for f in file_list)
any_file(token, files) == \E j \in 1..Len(files) : Contains(token, files[j])

\* A minimal vector that writes the .so flag into slot 10.
build_minimal_feature_vector_phone_slot(files) ==
  [i \in 1..FeatureCount |->
     IF \/ i = 1 /\ any_file("classes.dex", files)
        \/ i = 2 /\ any_file(".so", files)
        \/ i = 11 /\ any_file(".so", files)
        \/ i = 3 /\ any_file("assets", files)
     THEN Unit ELSE 0]

\* _build_minimal_feature_vector
build_minimal_feature_vector(files) ==
  [i \in 1..FeatureCount |->
     IF \/ i = 1 /\ any_file("classes.dex", files)
        \/ i = 2 /\ any_file(".so", files)
        \/ i = 3 /\ any_file("assets", files)
     THEN Unit ELSE 0]

\* ---- inputs of the extractor

PermPool ==
  { "android.permission.INTERNET",
    "android.permission.SEND_SMS",
    "android.permission.REQUEST_INSTALL_PACKAGES",
    "android.permission.BLUETOOTH_ADMIN",
    "com.vendor.permission.read_contacts",
    "android.permission.NFC",
    "com.app.CAMERA_ROLL.VIEW",
    "android.permission.FOREGROUND_SERVICE" }

SuspPool ==
  { "Dynamic code loading detected",
    "Encryption/cipher usage detected",
    "Native code libraries present",
    "Java reflection usage detected",
    "Boot receiver detected (auto-start capability)",
    "SMS receiver detected",
    "Native libraries detected" }

FilePool ==
  { "classes.dex", "lib/armeabi/libcore.so", "assets/config.bin",
    "AndroidManifest.xml", "res/Assets/icon.png" }

ComponentKinds == {"activities", "services", "receivers", "providers"}

CapOf(kind) ==
  CASE kind = "activities" -> ActivitiesCap
    [] kind = "services"   -> ServicesCap
    [] kind = "receivers"  -> ReceiversCap
    [] kind = "providers"  -> ProvidersCap

CountChoices(kind) ==
  {0, 1, CapOf(kind) - 1, CapOf(kind), CapOf(kind) + 1, 3 * CapOf(kind)}

\* Component-list lengths with at most k non-empty lists.
ComponentCounts(k) ==
  { c \in [ activities : CountChoices("activities"), services : CountChoices("services"),
            receivers : CountChoices("receivers"), providers : CountChoices("providers") ] :
      Cardinality({kind \in ComponentKinds : c[kind] # 0}) <= k }

NoComponents == [kind \in ComponentKinds |-> 0]

ExtractIdle ==
  /\ path = "none"
  /\ features = << >>
  /\ degraded = FALSE
  /\ permissions = << >>
  /\ suspicious_features = << >>
  /\ components = NoComponents
  /\ file_list = << >>

\* The inputs of one call: structured metadata (full path) or, when only the
\* archive listing is available (degraded), the listing.
ExtractInit ==
  /\ path = "none"
  /\ features = << >>
  /\ \/ /\ degraded = FALSE
        /\ permissions \in SeqsUpTo(PermPool, MaxItems)
        /\ suspicious_features \in SeqsUpTo(SuspPool, MaxItems - Len(permissions))
        /\ components \in ComponentCounts(MaxItems - Len(permissions) - Len(suspicious_features))
        /\ file_list = << >>
     \/ /\ degraded = TRUE
        /\ permissions = << >>
        /\ suspicious_features = << >>
        /\ components = NoComponents
        /\ file_list \in SeqsUpTo(FilePool, MaxItems)

\* APKAnalyzer._build_feature_vector applied to the metadata.
BuildFeatureVector ==
  /\ path = "none"
  /\ ~degraded
  /\ path' = "full"
  /\ features' = build_feature_vector(permissions, components, suspicious_features)
  /\ UNCHANGED <<degraded, permissions, components, suspicious_features, file_list>>
  /\ UNCHANGED <<cert_vars, pred_vars, scan_vars>>
  /\ UNCHANGED <<store_vars, server_vars>>

\* APKAnalyzer._build_minimal_feature_vector applied to the archive listing.
BuildMinimalFeatureVector ==
  /\ path = "none"
  /\ degraded
  /\ path' = "minimal"
  /\ features' = build_minimal_feature_vector(file_list)
  /\ UNCHANGED <<degraded, permissions, components, suspicious_features, file_list>>
  /\ UNCHANGED <<cert_vars, pred_vars, scan_vars>>
  /\ UNCHANGED <<store_vars, server_vars>>

\* ------------------------------------------------------------------ malware classifier

\* Python truth value of a number.
Truthy(x) == x # 0

MalwareThreshold == 30

ConfidenceCap == 95

\* round(x, 2) of a probability given in ten-thousandths, in hundredths.
Round2(x) == (x + 50) \div 100

\* The accumulator of _predict_rule_based with every SMS permission counted.
risk_score_per_permission(f) ==
  LET T(k) == Truthy(At(f, k))
      N(k) == IF T(k) THEN 1 ELSE 0
  IN    15 * (N(1) + N(2) + N(3))
      + (IF T(4) \/ T(5) THEN 8 ELSE 0)
      + (IF T(6) \/ T(7) THEN 5 ELSE 0)
      + (IF T(10) \/ T(11) THEN 10 ELSE 0)
      + (IF T(14) \/ T(15) \/ T(19) THEN 20 ELSE 0)
      + (IF T(20) THEN 18 ELSE 0)
      + (IF T(21) THEN 10 ELSE 0)
      + (IF T(44) THEN 12 ELSE 0)
      + (IF T(46) THEN 8 ELSE 0)
      + (IF T(47) THEN 7 ELSE 0)
      + (IF T(1) /\ T(10) THEN 15 ELSE 0)
      + (IF T(0) /\ T(4) /\ T(6) THEN 10 ELSE 0)

\* The accumulator risk_score of _predict_rule_based.
risk_score(f) ==
  LET T(k) == Truthy(At(f, k))
  IN    (IF T(1) \/ T(2) \/ T(3) THEN 15 ELSE 0)
      + (IF T(4) \/ T(5) THEN 8 ELSE 0)
      + (IF T(6) \/ T(7) THEN 5 ELSE 0)
      + (IF T(10) \/ T(11) THEN 10 ELSE 0)
      + (IF T(14) \/ T(15) \/ T(19) THEN 20 ELSE 0)
      + (IF T(20) THEN 18 ELSE 0)
      + (IF T(21) THEN 10 ELSE 0)
      + (IF T(44) THEN 12 ELSE 0)
      + (IF T(46) THEN 8 ELSE 0)
      + (IF T(47) THEN 7 ELSE 0)
      + (IF T(1) /\ T(10) THEN 15 ELSE 0)
      + (IF T(0) /\ T(4) /\ T(6) THEN 10 ELSE 0)

\* The indicators list of _predict_rule_based.
risk_indicators(f) ==
  LET T(k) == Truthy(At(f, k))
      I(c, name) == IF c THEN << name >> ELSE << >>
  IN  I(T(1) \/ T(2) \/ T(3), "SMS access")
      \o I(T(4) \/ T(5), "Contact access")
      \o I(T(6) \/ T(7), "Location tracking")
      \o I(T(10) \/ T(11), "Phone state access")
      \o I(T(14) \/ T(15) \/ T(19), "Package installation capability")
      \o I(T(20), "Device admin privileges")
      \o I(T(21), "Auto-start capability")
      \o I(T(44), "Dynamic code loading")
      \o I(T(46), "Native code")
      \o I(T(47), "Code reflection")
      \o I(T(1) /\ T(10), "Premium SMS fraud pattern")
      \o I(T(0) /\ T(4) /\ T(6), "Data exfiltration pattern")

\* What _determine_malware_type gives when an index is out of range.
IndexError == "<IndexError>"

\* The decision list without the early return for is_malware = False.
determine_malware_type_no_benign(f, is_malware) ==
  LET T(k) == Truthy(At(f, k))
  IN  IF Len(f) < 48 THEN IndexError
      ELSE IF T(1) \/ T(2) THEN "SMS Trojan / Premium SMS Fraud"
      ELSE IF T(16) /\ T(20) THEN "Banking Trojan"
      ELSE IF (T(4) \/ T(6) \/ T(8)) /\ T(0) THEN "Spyware / Information Stealer"
      ELSE IF T(0) /\ ~(\E k \in 1..9 : T(k)) THEN "Adware"
      ELSE IF T(44) \/ T(47) THEN "Backdoor / Remote Access Trojan"
      ELSE "Generic Malware"

\* The decision list with the 'Ransomware' test placed before 'Banking Trojan'.
determine_malware_type_ransomware_first(f, is_malware) ==
  LET T(k) == Truthy(At(f, k))
      O(k) == k >= Len(f)
  IN  IF ~is_malware THEN "Benign"
      ELSE IF O(1) THEN IndexError
      ELSE IF T(1) THEN "SMS Trojan / Premium SMS Fraud"
      ELSE IF O(2) THEN IndexError
      ELSE IF T(2) THEN "SMS Trojan / Premium SMS Fraud"
      ELSE IF O(20) THEN IndexError
      ELSE IF T(20) /\ T(16) THEN "Ransomware"
      ELSE IF T(16) /\ T(20) THEN "Banking Trojan"
      ELSE IF (T(4) \/ T(6) \/ T(8)) /\ T(0) THEN "Spyware / Information Stealer"
      ELSE IF T(0) /\ ~(\E k \in 1..9 : T(k)) THEN "Adware"
      ELSE IF O(44) THEN IndexError
      ELSE IF T(44) THEN "Backdoor / Remote Access Trojan"
      ELSE IF O(47) THEN IndexError
      ELSE IF T(47) THEN "Backdoor / Remote Access Trojan"
      ELSE "Generic Malware"

\* _determine_malware_type: a label, or IndexError when the list is too short
\* for an index the evaluation reaches.
determine_malware_type(f, is_malware) ==
  LET T(k) == Truthy(At(f, k))
      O(k) == k >= Len(f)
  IN  IF ~is_malware THEN "Benign"
      ELSE IF O(1) THEN IndexError
      ELSE IF T(1) THEN "SMS Trojan / Premium SMS Fraud"
      ELSE IF O(2) THEN IndexError
      ELSE IF T(2) THEN "SMS Trojan / Premium SMS Fraud"
      ELSE IF O(16) THEN IndexError
      ELSE IF T(16) /\ O(20) THEN IndexError
      ELSE IF T(16) /\ T(20) THEN "Banking Trojan"
      ELSE IF (T(4) \/ T(6) \/ T(8)) /\ T(0) THEN "Spyware / Information Stealer"
      ELSE IF O(20) THEN IndexError
      ELSE IF T(20) /\ T(16) THEN "Ransomware"
      ELSE IF T(0) /\ ~(\E k \in 1..9 : T(k)) THEN "Adware"
      ELSE IF O(44) THEN IndexError
      ELSE IF T(44) THEN "Backdoor / Remote Access Trojan"
      ELSE IF O(47) THEN IndexError
      ELSE IF T(47) THEN "Backdoor / Remote Access Trojan"
      ELSE "Generic Malware"

\* The indices _predict_rule_based reads whatever the values are (the first
\* operand of each condition).
RuleBasedReads == {1, 4, 6, 10, 14, 20, 21, 44, 46, 47, 0}

\* is_malware = risk_score >= 30
is_malware_of(score) == score >= MalwareThreshold

confidence_uncapped(score) == score

\* round(min(risk_score / 100.0, 0.95), 2)
confidence_of(score) == Min(score, ConfidenceCap)

\* _predict_rule_based: "return" with the dict, or "raise".
predict_rule_based(f) ==
  IF \E k \in RuleBasedReads : k >= Len(f)
  THEN [kind |-> "raise", exc |-> "IndexError"]
  ELSE LET score == risk_score(f)
           is_malware == is_malware_of(score)
       IN  [kind |-> "return",
            value |-> [ is_malware |-> is_malware,
                        confidence |-> confidence_of(score),
                        malware_type |-> determine_malware_type(f, is_malware),
                        risk_indicators |-> risk_indicators(f),
                        method |-> "rule_based" ]]

\* The try block of _predict_with_model raises: the model does (reshape,
\* predict, predict_proba), or _determine_malware_type runs off the list.
model_raises(f, resp) ==
  resp.raises \/ determine_malware_type(f, resp.prediction = 1) = IndexError

\* _predict_with_model with an except block that re-raises instead of falling back.
predict_with_model_reraises(f, resp) ==
  LET label == determine_malware_type(f, resp.prediction = 1)
  IN  IF resp.raises \/ label = IndexError
      THEN [kind |-> "raise", exc |-> "ModelError"]
      ELSE [kind |-> "return",
            value |-> [ is_malware |-> resp.prediction = 1,
                        confidence |-> IF resp.has_proba THEN Round2(resp.max_proba)
                                       ELSE IF resp.prediction = 1 THEN 85 ELSE 15,
                        malware_type |-> label,
                        method |-> "ml_model" ]]

\* _predict_with_model: the try block, then the except that falls back.
predict_with_model(f, resp) ==
  LET label == determine_malware_type(f, resp.prediction = 1)
  IN  IF resp.raises \/ label = IndexError
      THEN predict_rule_based(f)
      ELSE [kind |-> "return",
            value |-> [ is_malware |-> resp.prediction = 1,
                        confidence |-> IF resp.has_proba THEN Round2(resp.max_proba)
                                       ELSE IF resp.prediction = 1 THEN 85 ELSE 15,
                        malware_type |-> label,
                        method |-> "ml_model" ]]

\* The dict predict returns from its except block.
prediction_failed(exc) ==
  [ is_malware |-> FALSE, confidence |-> 0, malware_type |-> "Unknown", error |-> exc ]

\* MalwarePredictor.predict
predict(available, f, resp) ==
  LET r == IF available THEN predict_with_model(f, resp) ELSE predict_rule_based(f)
  IN  IF r.kind = "raise"
      THEN [kind |-> "return", value |-> prediction_failed(r.exc)]
      ELSE r

\* ---- inputs of the classifier

\* The indices the classifier reads, and the overlay (18) and receiver (48, 49)
\* flags it does not.
SampledIndices ==
  {0, 1, 2, 3, 4, 5, 6, 7, 8, 9, 10, 11, 14, 15, 16, 18, 19, 20, 21, 44, 46, 47, 48, 49}

RECURSIVE SubsetsUpTo(_, _)
SubsetsUpTo(S, n) ==
  IF n = 0 THEN {{}}
  ELSE LET prev == SubsetsUpTo(S, n - 1)
       IN  prev \cup {p \cup {x} : p \in prev, x \in S}

VectorOf(len, S) == [i \in 1..len |-> IF (i - 1) \in S THEN Unit ELSE 0]

\* Lengths other than 50 a caller may pass to predict.
OtherLengths == {0, 2, 17, 21, 45, 47, 48, 49, 51}

InputVectors ==
  {VectorOf(FeatureCount, S) : S \in SubsetsUpTo(SampledIndices, MaxSet)}
  \cup {VectorOf(FeatureCount, SampledIndices \ S) : S \in SubsetsUpTo(SampledIndices, MaxSet)}
  \cup {VectorOf(len, S) : len \in OtherLengths, S \in SubsetsUpTo(SampledIndices, 1)}

\* The vectors of the calls after the first: a clean one, the premium-SMS
\* pattern, and one too short for the classifier.
LaterVectors ==
  { VectorOf(FeatureCount, {}), VectorOf(FeatureCount, {1, 10}), VectorOf(47, {}) }

NoResponse == [raises |-> FALSE, prediction |-> 0, has_proba |-> FALSE, max_proba |-> 0]

\* What a loaded model may do on one call: raise, or predict 0 or 1, with a
\* class probability (ten-thousandths) when it has predict_proba.
ModelResponses ==
  { [raises |-> TRUE, prediction |-> 0, has_proba |-> FALSE, max_proba |-> 0] }
  \cup { [raises |-> FALSE, prediction |-> y, has_proba |-> FALSE, max_proba |-> 0] : y \in {0, 1} }
  \cup { [raises |-> FALSE, prediction |-> y, has_proba |-> TRUE, max_proba |-> q] :
           y \in {0, 1}, q \in {5000, 7349} }

NoPrediction == [method |-> "(not called)"]

NotComputed == 0 - 1

\* _predict_rule_based ran to its return statement.
RuleBasedResult(res) == "method" \in DOMAIN res /\ res.method = "rule_based"

PredictIdle ==
  /\ pred_pc = "new"
  /\ model_file = "missing"
  /\ model_available = FALSE
  /\ model_response = NoResponse
  /\ accumulator = NotComputed
  /\ ml_result = NoPrediction
  /\ calls = 0
  /\ model_failures = 0

\* MalwarePredictor.__init__ before _load_model, for each state of the artifact.
PredictInit ==
  /\ pred_pc = "new"
  /\ model_file \in {"missing", "corrupt", "ok"}
  /\ model_available = FALSE
  /\ model_response = NoResponse
  /\ accumulator = NotComputed
  /\ ml_result = NoPrediction
  /\ calls = 0
  /\ model_failures = 0

\* _load_model with the availability flag set before the artifact is unpickled.
LoadModel_flag_before_load ==
  /\ pred_pc = "new"
  /\ pred_pc' = "ready"
  /\ model_available' = (model_file # "missing")
  /\ UNCHANGED <<model_file, model_response, accumulator, ml_result, calls, model_failures>>
  /\ UNCHANGED <<extract_vars, cert_vars, scan_vars>>
  /\ UNCHANGED <<store_vars, server_vars>>

\* MalwarePredictor._load_model
LoadModel ==
  /\ pred_pc = "new"
  /\ pred_pc' = "ready"
  /\ model_available' = (model_file = "ok")
  /\ UNCHANGED <<model_file, model_response, accumulator, ml_result, calls, model_failures>>
  /\ UNCHANGED <<extract_vars, cert_vars, scan_vars>>
  /\ UNCHANGED <<store_vars, server_vars>>

\* MalwarePredictor.predict called with a feature vector.  A single call is
\* explored with every input vector, a sequence of calls with the LaterVectors.
Predict ==
  /\ pred_pc \in {"ready", "returned"}
  /\ calls < MaxCalls
  /\ calls' = calls + 1
  /\ \E f \in (IF calls = 0 THEN InputVectors
              ELSE IF features \in LaterVectors THEN LaterVectors ELSE {}) :
     \E resp \in (IF model_available THEN ModelResponses ELSE {NoResponse}) :
       LET r == predict(model_available, f, resp)
       IN  /\ features' = f
           /\ model_failures' = IF model_available /\ model_raises(f, resp)
                                THEN model_failures + 1 ELSE model_failures
           /\ path' = "direct"
           /\ model_response' = resp
           /\ pred_pc' = IF r.kind = "return" THEN "returned" ELSE "raised"
           /\ ml_result' = IF r.kind = "return" THEN r.value ELSE ml_result
           /\ accumulator' = IF r.kind = "return" /\ RuleBasedResult(r.value)
                             THEN risk_score(f) ELSE NotComputed
  /\ UNCHANGED <<model_file, model_available>>
  /\ UNCHANGED <<degraded, permissions, components, suspicious_features, file_list>>
  /\ UNCHANGED <<cert_vars, scan_vars>>
  /\ UNCHANGED <<store_vars, server_vars>>

\* ------------------------------------------------------------------ claims: feature extractor

\* C1: every vector returned by _build_feature_vector and by
\* _build_minimal_feature_vector has exactly 50 entries, each in [0,1]; entries
\* 40-43 are count/cap below the cap and saturate at 1 from the cap on.
C1_VectorShape ==
  path \in {"full", "minimal"} =>
    /\ Len(features) = 50
    /\ \A i \in 1..Len(features) : 0 <= features[i] /\ features[i] <= Unit
    /\ path = "full" =>
         \A k \in 40..43 :
           LET kind == <<"activities", "services", "receivers", "providers">>[k - 39]
               cap  == <<50, 20, 20, 10>>[k - 39]
               n    == components[kind]
           IN  /\ n >= cap => At(features, k) = Unit
               /\ n < cap => At(features, k) * cap = n * Unit

C1_Witness ==
  /\ path = "full"
  /\ Len(permissions) > 0
  /\ components.activities > 50
  /\ At(features, 40) = Unit

\* C2: feature i (0-39) is 1 if and only if some declared permission's part
\* after the last '.' equals the i-th canonical name, case-insensitively.
C2_SuffixEquality ==
  path = "full" =>
    \A k \in 0..39 :
      (At(features, k) = Unit) <=>
        (\E j \in 1..Len(permissions) :
           upper(LastSegment(permissions[j])) = perm_features[k + 1])

\* C3: in the degraded vector a permission slot (0-39) is non-zero only when
\* that permission is evidenced by the declared permissions; the archive
\* flags never set the INTERNET, SEND_SMS or RECEIVE_SMS slots.
C3_DegradedSlotsKeepMeaning ==
  path = "minimal" =>
    \A k \in 0..39 :
      At(features, k) # 0 =>
        (\E j \in 1..Len(permissions) :
           upper(LastSegment(permissions[j])) = perm_features[k + 1])

\* ------------------------------------------------------------------ certificate trust verifier

google_patterns == << "CN=Android", "CN=Google Inc", "O=Google Inc", "OU=Android" >>

known_publishers ==
  << "CN=Facebook", "CN=Twitter", "CN=Microsoft", "CN=Amazon", "CN=WhatsApp",
     "O=Facebook", "O=Microsoft Corporation", "O=Amazon", "O=Samsung",
     "O=Xiaomi", "O=Huawei" >>

\* f"{issuer} {subject}".upper() searched for each pattern.upper()
matches_any(patterns, issuer, subject) ==
  LET cert_string == upper(issuer \o " " \o subject)
  IN  \E i \in 1..Len(patterns) : Contains(upper(patterns[i]), cert_string)

check_play_store_cert(issuer, subject) == matches_any(google_patterns, issuer, subject)

check_known_publisher(issuer, subject) == matches_any(known_publishers, issuer, subject)

ShortValidityDays == 365

LongValidityDays == 3650

\* The if-chain that appends the warnings.
warnings_tier_dependent(is_play_store, is_expired, is_not_yet_valid, is_self_signed, validity_days) ==
  (IF is_expired THEN << "Certificate expired" >> ELSE << >>)
  \o (IF is_not_yet_valid THEN << "Certificate not yet valid" >> ELSE << >>)
  \o (IF is_self_signed /\ ~is_play_store
      THEN << "Self-signed certificate (not from trusted authority)" >> ELSE << >>)
  \o (IF validity_days < ShortValidityDays
      THEN << "Short validity period (" \o ToString(validity_days) \o " days)" >> ELSE << >>)
  \o (IF validity_days > LongValidityDays
      THEN << "Unusually long validity period" >> ELSE << >>)

cert_warnings(is_play_store, is_expired, is_not_yet_valid, is_self_signed, validity_days) ==
  (IF is_expired THEN << "Certificate expired" >> ELSE << >>)
  \o (IF is_not_yet_valid THEN << "Certificate not yet valid" >> ELSE << >>)
  \o (IF is_self_signed
      THEN << "Self-signed certificate (not from trusted authority)" >> ELSE << >>)
  \o (IF validity_days < ShortValidityDays
      THEN << "Short validity period (" \o ToString(validity_days) \o " days)" >> ELSE << >>)
  \o (IF validity_days > LongValidityDays
      THEN << "Unusually long validity period" >> ELSE << >>)

\* The if/elif chain that determines source, verified and trust_score.
trust_decision_valid_first(is_play_store, is_known_publisher, is_self_signed, validity_days, is_expired) ==
  IF ~is_self_signed /\ validity_days >= ShortValidityDays /\ ~is_expired
  THEN [source |-> "Third-party (Valid Certificate)", verified |-> TRUE, trust_score |-> 70]
  ELSE IF is_play_store
  THEN [source |-> "Google Play Store", verified |-> TRUE, trust_score |-> Unit]
  ELSE IF is_known_publisher
  THEN [source |-> "Known Publisher", verified |-> TRUE, trust_score |-> 85]
  ELSE IF ~is_self_signed
  THEN [source |-> "Third-party (Certificate Issues)", verified |-> FALSE, trust_score |-> 40]
  ELSE [source |-> "Unknown / Untrusted", verified |-> FALSE, trust_score |-> 20]

trust_decision(is_play_store, is_known_publisher, is_self_signed, validity_days, is_expired) ==
  IF is_play_store
  THEN [source |-> "Google Play Store", verified |-> TRUE, trust_score |-> Unit]
  ELSE IF is_known_publisher
  THEN [source |-> "Known Publisher", verified |-> TRUE, trust_score |-> 85]
  ELSE IF ~is_self_signed /\ validity_days >= ShortValidityDays /\ ~is_expired
  THEN [source |-> "Third-party (Valid Certificate)", verified |-> TRUE, trust_score |-> 70]
  ELSE IF ~is_self_signed
  THEN [source |-> "Third-party (Certificate Issues)", verified |-> FALSE, trust_score |-> 40]
  ELSE [source |-> "Unknown / Untrusted", verified |-> FALSE, trust_score |-> 20]

\* The body of the try block once the certificate is parsed.  The attributes
\* copied verbatim from the parser (organization, serial number, signature
\* algorithm, fingerprint) are left out: nothing is computed from them.
verified_certificate(c) ==
  LET is_expired       == c.now > c.not_valid_after
      is_not_yet_valid == c.now < c.not_valid_before
      validity_days    == c.not_valid_after - c.not_valid_before
      is_self_signed   == c.issuer = c.subject
      is_play_store    == check_play_store_cert(c.issuer, c.subject)
      is_known_publisher == check_known_publisher(c.issuer, c.subject)
      d == trust_decision(is_play_store, is_known_publisher, is_self_signed,
                          validity_days, is_expired)
  IN  [ source |-> d.source,
        verified |-> d.verified,
        trust_score |-> d.trust_score,
        certificate |->
          [ issuer |-> c.issuer, subject |-> c.subject,
            is_expired |-> is_expired, is_not_yet_valid |-> is_not_yet_valid,
            is_self_signed |-> is_self_signed, validity_days |-> validity_days ],
        warnings |-> cert_warnings(is_play_store, is_expired, is_not_yet_valid,
                                   is_self_signed, validity_days) ]

\* What the try block does: "return" with a dict, or "raise" with the exception.
\* c.fault is the failure the environment injects: the cryptography import
\* fails, get_certificate_der or the DER parser raises, or nothing fails.
verify_source_try(c) ==
  IF c.fault = "import_error" THEN [kind |-> "raise", exc |-> "ImportError"]
  ELSE IF c.fault = "der_error" THEN [kind |-> "raise", exc |-> "Exception"]
  ELSE IF ~c.has_cert
  THEN [kind |-> "return",
        value |-> [ source |-> "Unknown", verified |-> FALSE, trust_score |-> 0,
                    error |-> "No certificate found in APK" ]]
  ELSE IF c.fault = "parse_error" THEN [kind |-> "raise", exc |-> "Exception"]
  ELSE [kind |-> "return", value |-> verified_certificate(c)]

\* A handler list that lets every exception but ImportError through.
verify_source_except_import_only(exc) ==
  IF exc = "ImportError"
  THEN [kind |-> "return",
        value |-> [ source |-> "Unknown (Verification Unavailable)", verified |-> FALSE,
                    trust_score |-> 50,
                    error |-> "Certificate verification library not installed" ]]
  ELSE [kind |-> "raise", exc |-> exc]

\* except ImportError / except Exception
verify_source_except(exc) ==
  IF exc = "ImportError"
  THEN [kind |-> "return",
        value |-> [ source |-> "Unknown (Verification Unavailable)", verified |-> FALSE,
                    trust_score |-> 50,
                    error |-> "Certificate verification library not installed" ]]
  ELSE [kind |-> "return",
        value |-> [ source |-> "Unknown", verified |-> FALSE, trust_score |-> 30,
                    error |-> exc ]]

verify_source(c) ==
  LET t == verify_source_try(c)
  IN  IF t.kind = "raise" THEN verify_source_except(t.exc) ELSE t

\* ---- inputs of the verifier

DNPool ==
  { "CN=Android Debug,O=Android,C=US",
    "CN=WhatsApp Inc.,O=WhatsApp",
    "CN=Jane Dev,O=Indie Apps",
    "CN=Trusty CA,O=Trusty Corp",
    "cn=google inc",
    "OU=Android,O=Samsung Electronics" }

\* Day numbers: what the clock (datetime.utcnow) reads, and not_valid_before.
NowChoices == {5000}

NotBeforeChoices(now) == {0, now - 100, now, now + 1}

ValidityChoices ==
  {-1, 0, 200}
  \cup {ShortValidityDays - k : k \in 0..MaxSlack} \cup {ShortValidityDays + k : k \in 0..MaxSlack}
  \cup {LongValidityDays - k : k \in 0..MaxSlack} \cup {LongValidityDays + k : k \in 0..MaxSlack}

Faults == {"none", "import_error", "der_error", "parse_error"}

NoCert ==
  [ has_cert |-> FALSE, issuer |-> "", subject |-> "",
    not_valid_before |-> 0, not_valid_after |-> 0, now |-> CHOOSE t \in NowChoices : TRUE ]

Certificates ==
  { [ has_cert |-> TRUE, issuer |-> i, subject |-> s,
      not_valid_before |-> nb, not_valid_after |-> nb + v, now |-> t ] :
      i \in DNPool, s \in DNPool, nb \in UNION {NotBeforeChoices(n) : n \in NowChoices},
      v \in ValidityChoices, t \in NowChoices }

WithFault(c, f) ==
  [ has_cert |-> c.has_cert, issuer |-> c.issuer, subject |-> c.subject,
    not_valid_before |-> c.not_valid_before, not_valid_after |-> c.not_valid_after,
    now |-> c.now, fault |-> f ]

NoResult == [source |-> "(not called)"]

CertIdle ==
  /\ cert_pc = "idle"
  /\ cert = WithFault(NoCert, "none")
  /\ source_verification = NoResult

\* One package's certificate, the clock, and the failure the environment injects.
CertInit ==
  /\ cert_pc = "idle"
  /\ source_verification = NoResult
  /\ cert \in {WithFault(c, f) : c \in Certificates \cup {NoCert}, f \in Faults}

\* APKAnalyzer.verify_source is called on the package.
VerifySource ==
  /\ cert_pc = "idle"
  /\ LET r == verify_source(cert)
     IN  /\ cert_pc' = IF r.kind = "return" THEN "returned" ELSE "raised"
         /\ source_verification' = IF r.kind = "return" THEN r.value ELSE source_verification
  /\ UNCHANGED cert
  /\ UNCHANGED <<extract_vars, pred_vars, scan_vars>>
  /\ UNCHANGED <<store_vars, server_vars>>

\* ------------------------------------------------------------------ claims: certificate trust

IsSelfSigned == cert.issuer = cert.subject

IsExpired == cert.now > cert.not_valid_after

IsNotYetValid == cert.now < cert.not_valid_before

ValidityDays == cert.not_valid_after - cert.not_valid_before

IsPlayStore == check_play_store_cert(cert.issuer, cert.subject)

IsKnownPublisher == check_known_publisher(cert.issuer, cert.subject)

\* The call returned the result of a successfully parsed certificate.
CertParsed == cert_pc = "returned" /\ cert.has_cert /\ cert.fault = "none"

\* The call met a missing certificate or a failure.
CertDegraded == cert_pc # "idle" /\ (~cert.has_cert \/ cert.fault # "none")

Tier(src, ver, score) ==
  /\ source_verification.source = src
  /\ source_verification.verified = ver
  /\ source_verification.trust_score = score

\* C4: for every parsed certificate the tier is the first match of:
\* (1) distribution-channel pattern -> Google Play Store, 1.0, verified;
\* (2) known publisher -> 0.85, verified; (3) not self-signed, validity >= 365
\* days, not expired -> Third-party (Valid Certificate), 0.7, verified;
\* (4) not self-signed -> Third-party (Certificate Issues), 0.4, unverified;
\* (5) otherwise Unknown / Untrusted, 0.2, unverified.
C4_TierPriority ==
  CertParsed =>
    /\ IsPlayStore => Tier("Google Play Store", TRUE, 100)
    /\ ~IsPlayStore /\ IsKnownPublisher => Tier("Known Publisher", TRUE, 85)
    /\ ~IsPlayStore /\ ~IsKnownPublisher /\ ~IsSelfSigned
         /\ ValidityDays >= 365 /\ ~IsExpired
       => Tier("Third-party (Valid Certificate)", TRUE, 70)
    /\ ~IsPlayStore /\ ~IsKnownPublisher /\ ~IsSelfSigned
         /\ ~(ValidityDays >= 365 /\ ~IsExpired)
       => Tier("Third-party (Certificate Issues)", FALSE, 40)
    /\ ~IsPlayStore /\ ~IsKnownPublisher /\ IsSelfSigned
       => Tier("Unknown / Untrusted", FALSE, 20)

\* A certificate that satisfies rule 1 and rule 3 got rule 1's result.
C4_Witness ==
  /\ CertParsed
  /\ IsPlayStore /\ ~IsSelfSigned /\ ValidityDays >= 365 /\ ~IsExpired
  /\ Tier("Google Play Store", TRUE, 100)

InSeq(x, q) == \E i \in 1..Len(q) : q[i] = x

ShortValidityWarning(days) == "Short validity period (" \o ToString(days) \o " days)"

\* C6: for every parsed certificate the warnings are exactly those whose
\* conditions hold (expired, not yet valid, self-signed, validity < 365 days,
\* validity > 3650 days), whatever tier is chosen.
C6_WarningsIndependentOfTier ==
  CertParsed =>
    LET W == source_verification.warnings
    IN  /\ InSeq("Certificate expired", W) <=> IsExpired
        /\ InSeq("Certificate not yet valid", W) <=> IsNotYetValid
        /\ InSeq("Self-signed certificate (not from trusted authority)", W) <=> IsSelfSigned
        /\ InSeq(ShortValidityWarning(ValidityDays), W) <=> ValidityDays < 365
        /\ InSeq("Unusually long validity period", W) <=> ValidityDays > 3650
        /\ \A i \in 1..Len(W) :
             W[i] \in { "Certificate expired", "Certificate not yet valid",
                        "Self-signed certificate (not from trusted authority)",
                        ShortValidityWarning(ValidityDays),
                        "Unusually long validity period" }
        /\ \A i, j \in 1..Len(W) : W[i] = W[j] => i = j
        /\ IsSelfSigned /\ IsPlayStore =>
             source_verification.trust_score = 100
        /\ IsSelfSigned /\ ValidityDays = 200 /\ ~IsPlayStore /\ ~IsKnownPublisher =>
             /\ InSeq("Short validity period (200 days)", W)
             /\ Tier("Unknown / Untrusted", FALSE, 20)

\* A self-signed certificate matching a distribution-channel pattern: score 1.0
\* and the self-signed warning.
C6_Witness ==
  /\ CertParsed
  /\ IsSelfSigned /\ IsPlayStore
  /\ source_verification.trust_score = 100
  /\ InSeq("Self-signed certificate (not from trusted authority)", source_verification.warnings)

\* C29: a certificate whose validity window has not started (the clock reads
\* before not-before) is never given the tier 'Third-party (Valid
\* Certificate)' with verified = true.
C29_NotYetValidNeverTier3 ==
  (CertParsed /\ IsNotYetValid) =>
    ~( /\ source_verification.source = "Third-party (Valid Certificate)"
       /\ source_verification.verified )

\* ------------------------------------------------------------------ reputation lookup

\* dict.get(key, default)
Get(r, key, default) == IF key \in DOMAIN r THEN r[key] ELSE default

\* The <<positives, total>> of the reports the service sends.
DetectionPairs ==
  { <<0, 0>>, <<0, 70>>, <<1, 70>>, <<35, 70>>, <<70, 70>>, <<71, 70>>,
    <<1, 3>>, <<2, 3>>, <<3, 2>> }

\* The JSON body of a 200 reply: file unknown, a report, a report without a
\* 'total' key, and a report whose 'scans' entry is not a dict.
Reports ==
  { [response_code |-> 0] }
  \cup { [response_code |-> 1, positives |-> d[1], total |-> d[2]] : d \in DetectionPairs }
  \cup { [response_code |-> 1, positives |-> 5] }
  \cup { [response_code |-> 1, positives |-> 35, total |-> 70, scans |-> "malformed"] }

NoReply == [outcome |-> "no request"]

\* What requests.get does: time out, fail otherwise, or answer with a status
\* (200 with a body that is not JSON, 200 with a report, 204, 403).
LookupReplies ==
  { [outcome |-> "timeout"], [outcome |-> "error", exc |-> "ConnectionError"] }
  \cup { [outcome |-> "response", status_code |-> s] : s \in {204, 403} }
  \cup { [outcome |-> "response", status_code |-> 200] }
  \cup { [outcome |-> "response", status_code |-> 200, data |-> d] : d \in Reports }

\* The try block of check_hash: "return" with the dict, or "raise".  The
\* entries copied verbatim from the report (scan_date, permalink, the parsed
\* scans) are left out.
check_hash_try(reply) ==
  IF reply.outcome = "timeout" THEN [kind |-> "raise", exc |-> "Timeout"]
  ELSE IF reply.outcome = "error" THEN [kind |-> "raise", exc |-> reply.exc]
  ELSE IF reply.status_code = 200
  THEN IF "data" \notin DOMAIN reply THEN [kind |-> "raise", exc |-> "JSONDecodeError"]
       ELSE IF Get(reply.data, "response_code", 0) = 1
       THEN LET positives == Get(reply.data, "positives", 0)
                total     == Get(reply.data, "total", 0)
            IN  IF Get(reply.data, "scans", "dict") = "malformed"
                THEN [kind |-> "raise", exc |-> "AttributeError"]
                ELSE [kind |-> "return",
                      value |-> [ available |-> TRUE,
                                  detected |-> positives > 0,
                                  positives |-> positives,
                                  total |-> total,
                                  detection_ratio |-> ToString(positives) \o "/" \o ToString(total) ]]
       ELSE [kind |-> "return",
             value |-> [ available |-> TRUE, detected |-> FALSE,
                         message |-> "File not found in VirusTotal database",
                         positives |-> 0, total |-> 0 ]]
  ELSE IF reply.status_code = 204
  THEN [kind |-> "return",
        value |-> [available |-> FALSE, error |-> "VirusTotal rate limit exceeded"]]
  ELSE [kind |-> "return",
        value |-> [ available |-> FALSE,
                    error |-> "VirusTotal API error: " \o ToString(reply.status_code) ]]

\* A handler list with `except requests.Timeout` only.
check_hash_except_timeout_only(exc) ==
  IF exc = "Timeout"
  THEN [kind |-> "return",
        value |-> [available |-> FALSE, error |-> "VirusTotal API timeout"]]
  ELSE [kind |-> "raise", exc |-> exc]

\* except requests.Timeout / except Exception
check_hash_except(exc) ==
  IF exc = "Timeout"
  THEN [kind |-> "return",
        value |-> [available |-> FALSE, error |-> "VirusTotal API timeout"]]
  ELSE [kind |-> "return", value |-> [available |-> FALSE, error |-> exc]]

\* VirusTotalChecker.check_hash
check_hash(enabled, reply) ==
  IF ~enabled
  THEN [kind |-> "return",
        value |-> [available |-> FALSE, message |-> "VirusTotal API key not configured"]]
  ELSE LET t == check_hash_try(reply)
       IN  IF t.kind = "raise" THEN check_hash_except(t.exc) ELSE t

\* ------------------------------------------------------------------ risk aggregator

MaliciousThreshold == 70

SuspiciousThreshold == 40

\* confidence * 40 when the malware flag is set, in hundredths.
ml_term(ml) ==
  IF Get(ml, "is_malware", FALSE) THEN Get(ml, "confidence", 0) * 40 ELSE 0

dangerous_term_uncapped(analysis) == Len(Get(analysis, "dangerous_permissions", << >>)) * 4

\* min(dangerous_perms * 4, 20)
dangerous_term(analysis) ==
  Min(Len(Get(analysis, "dangerous_permissions", << >>)) * 4, 20)

suspicious_term_uncapped(analysis) == Len(Get(analysis, "suspicious_features", << >>)) * 5

\* min(suspicious_features * 5, 20)
suspicious_term(analysis) ==
  Min(Len(Get(analysis, "suspicious_features", << >>)) * 5, 20)

\* A clean lookup result counted in the package's favour.
vt_term_clean_discount(vt) ==
  IF Get(vt, "detected", FALSE)
  THEN << Get(vt, "positives", 0) * 20, Max(Get(vt, "total", 1), 1) >>
  ELSE IF Get(vt, "available", FALSE) THEN << 0 - 5, 1 >> ELSE << 0, 1 >>

\* detection_ratio * 20 as the fraction <<numerator, denominator>>:
\* positives / max(total, 1) is not a whole number of hundredths.
vt_term(vt) ==
  IF Get(vt, "detected", FALSE)
  THEN << Get(vt, "positives", 0) * 20, Max(Get(vt, "total", 1), 1) >>
  ELSE << 0, 1 >>

\* The float score before `min(int(score), 100)`, in units of 1 / (Unit * den)
\* where den is the denominator of the reputation term.
score_sum(analysis, ml, vt) ==
  (ml_term(ml) + Unit * (dangerous_term(analysis) + suspicious_term(analysis))) * vt_term(vt)[2]
  + Unit * vt_term(vt)[1]

\* calculate_risk_score without the final min.
calculate_risk_score_unclamped(analysis, ml, vt) ==
  score_sum(analysis, ml, vt) \div (Unit * vt_term(vt)[2])

\* calculate_risk_score with 10 points taken off for a verified certificate.
calculate_risk_score_trusting(analysis, ml, vt) ==
  LET score == score_sum(analysis, ml, vt) \div (Unit * vt_term(vt)[2])
      trust == Get(analysis, "source_verification", [verified |-> FALSE])
  IN  Min(IF trust.verified THEN Max(score - 10, 0) ELSE score, 100)

\* calculate_risk_score: int() truncates, the sum is never negative.
calculate_risk_score(analysis, ml, vt) ==
  Min(score_sum(analysis, ml, vt) \div (Unit * vt_term(vt)[2]), 100)

\* determine_verdict that lets a confident malware prediction decide.
determine_verdict_by_prediction(risk, ml) ==
  IF risk >= MaliciousThreshold \/ (ml.is_malware /\ ml.confidence >= 90) THEN "Malicious"
  ELSE IF risk >= SuspiciousThreshold THEN "Suspicious"
  ELSE "Safe"

\* determine_verdict
determine_verdict(risk, ml) ==
  IF risk >= MaliciousThreshold THEN "Malicious"
  ELSE IF risk >= SuspiciousThreshold THEN "Suspicious"
  ELSE "Safe"

\* ---- inputs of the aggregator

\* Lists of n dangerous permissions and of n suspicious features.
DangerousList(n) == SubSeq(perm_features, 2, n + 1)

SuspiciousList(n) == SubSeq(susp_flags, 1, n)

AnalysisCounts ==
  { [ dangerous_permissions |-> DangerousList(d), suspicious_features |-> SuspiciousList(s) ] :
      d \in 0..MaxDangerous, s \in 0..MaxSuspicious }

\* Confidences in hundredths: of the rule-based strategy (0.30 .. 0.95), of a
\* model (0.50, 0.73, 1.0, the defaults 0.85 and 0.15, and 0.24 and 0.25 of a
\* model with more than two classes), of the error record (0).
Confidences == {0, 15, 24, 25, 30, 40, 50, 73, 85, 90, 95, 100}

Predictions == { [is_malware |-> b, confidence |-> c] : b \in BOOLEAN, c \in Confidences }

\* Every dict check_hash returns.
Reputations ==
  { check_hash(e, r).value : e \in {TRUE}, r \in LookupReplies }
  \cup { check_hash(FALSE, NoReply).value }

NoAnalysis == [success |-> FALSE, error |-> "(not analysed)"]

NoLookup == [message |-> "(not called)"]

NoScan == [verdict |-> "(none)"]

NoUpload == [readable |-> FALSE]

ScanIdle ==
  /\ scan_pc = "idle"
  /\ androguard_available = FALSE
  /\ vt_enabled = FALSE
  /\ upload = NoUpload
  /\ vt_reply = NoReply
  /\ analysis_result = NoAnalysis
  /\ vt_result = NoLookup
  /\ scan_result = NoScan
  /\ scan_status = 0

\* The arguments of one call of calculate_risk_score and determine_verdict.
RiskInit ==
  /\ scan_pc = "idle"
  /\ androguard_available = FALSE
  /\ vt_enabled = FALSE
  /\ upload = NoUpload
  /\ vt_reply = NoReply
  /\ analysis_result \in AnalysisCounts
  /\ vt_result \in Reputations
  /\ scan_result = NoScan
  /\ scan_status = 0
  /\ ml_result \in Predictions
  /\ pred_pc = "new"
  /\ model_file = "missing"
  /\ model_available = FALSE
  /\ model_response = NoResponse
  /\ accumulator = NotComputed
  /\ calls = 0
  /\ model_failures = 0

\* calculate_risk_score, then determine_verdict on its result (scan_apk, the
\* two statements after the lookup).
CalculateRiskScore ==
  /\ scan_pc = "idle"
  /\ scan_pc' = "scored"
  /\ LET risk == calculate_risk_score(analysis_result, ml_result, vt_result)
     IN  scan_result' = [risk_score |-> risk, verdict |-> determine_verdict(risk, ml_result)]
  /\ UNCHANGED <<androguard_available, vt_enabled, upload, vt_reply, analysis_result,
                 vt_result, scan_status>>
  /\ UNCHANGED <<extract_vars, cert_vars, pred_vars>>
  /\ UNCHANGED <<store_vars, server_vars>>

\* ------------------------------------------------------------------ scan handler

DANGEROUS_PERMISSIONS ==
  { "SEND_SMS", "RECEIVE_SMS", "READ_SMS", "WRITE_SMS",
    "READ_CONTACTS", "WRITE_CONTACTS",
    "ACCESS_FINE_LOCATION", "ACCESS_COARSE_LOCATION",
    "RECORD_AUDIO", "CAMERA",
    "READ_PHONE_STATE", "CALL_PHONE",
    "READ_CALL_LOG", "WRITE_CALL_LOG",
    "INSTALL_PACKAGES", "DELETE_PACKAGES",
    "READ_EXTERNAL_STORAGE", "WRITE_EXTERNAL_STORAGE",
    "SYSTEM_ALERT_WINDOW",
    "REQUEST_INSTALL_PACKAGES",
    "BIND_DEVICE_ADMIN",
    "MOUNT_UNMOUNT_FILESYSTEMS",
    "WRITE_SETTINGS" }

\* _identify_dangerous_permissions
identify_dangerous_permissions(perms) ==
  SelectSeq([j \in 1..Len(perms) |-> LastSegment(perms[j])],
            LAMBDA name : name \in DANGEROUS_PERMISSIONS)

\* The suspicious_files list of _analyze_fallback.
suspicious_files(files) ==
  LET I(c, text) == IF c THEN << text >> ELSE << >>
  IN  I(\E j \in 1..Len(files) : Contains("native", lower(files[j])),
        "Native libraries detected")
      \o I(any_file(".so", files), "Compiled native code (.so files)")
      \o I(\E j \in 1..Len(files) : Contains("assets", lower(files[j])),
           "Asset files present")

\* _analyze_fallback: the archive listing only.  The entries copied verbatim
\* (file_size, total_files, the 'Unknown' package information) are left out.
analyze_fallback(pkg) ==
  IF ~pkg.zip_ok
  THEN [success |-> FALSE, error |-> "Could not analyze APK: BadZipFile"]
  ELSE [ success |-> TRUE,
         permissions |-> << >>,
         dangerous_permissions |-> << >>,
         suspicious_features |-> suspicious_files(pkg.file_list),
         features |-> build_minimal_feature_vector(pkg.file_list),
         note |-> "Limited analysis - Androguard not available" ]

\* _analyze_with_androguard whose except block reports the failure instead of
\* calling the fallback.
analyze_with_androguard_propagates(pkg) ==
  LET trust == verify_source(pkg.cert)
  IN  IF ~pkg.parses \/ trust.kind = "raise"
      THEN [success |-> FALSE, error |-> "Androguard analysis failed"]
      ELSE [ success |-> TRUE,
             permissions |-> pkg.permissions,
             dangerous_permissions |-> identify_dangerous_permissions(pkg.permissions),
             suspicious_features |-> pkg.suspicious_features,
             source_verification |-> trust.value,
             features |-> build_feature_vector(pkg.permissions, pkg.components,
                                               pkg.suspicious_features) ]

\* _analyze_with_androguard: the structured metadata, or the fallback when the
\* parser raises.  pkg.suspicious_features is what _identify_suspicious_features
\* found; the package information, components lists and URLs copied into the
\* dict are left out.
analyze_with_androguard(pkg) ==
  LET trust == verify_source(pkg.cert)
  IN  IF ~pkg.parses \/ trust.kind = "raise"
      THEN analyze_fallback(pkg)
      ELSE [ success |-> TRUE,
             permissions |-> pkg.permissions,
             dangerous_permissions |-> identify_dangerous_permissions(pkg.permissions),
             suspicious_features |-> pkg.suspicious_features,
             source_verification |-> trust.value,
             features |-> build_feature_vector(pkg.permissions, pkg.components,
                                               pkg.suspicious_features) ]

\* APKAnalyzer.analyze
analyze(available, pkg) ==
  IF available THEN analyze_with_androguard(pkg) ELSE analyze_fallback(pkg)

\* ---- inputs of the scan

ScanPermissions ==
  { << >>,
    << "android.permission.INTERNET", "android.permission.SEND_SMS",
       "android.permission.READ_PHONE_STATE" >>,
    << "android.permission.SEND_SMS", "android.permission.READ_SMS",
       "android.permission.READ_CONTACTS", "android.permission.ACCESS_FINE_LOCATION",
       "android.permission.INSTALL_PACKAGES", "android.permission.BIND_DEVICE_ADMIN" >> }

ScanSuspicious ==
  { << >>, << "Dynamic code loading detected", "Native code libraries present" >> }

\* No certificate, a Play Store certificate, a self-signed one, and one the
\* parser fails on.
ScanCertificates ==
  LET now == CHOOSE t \in NowChoices : TRUE
      signed(issuer, subject) ==
        [ has_cert |-> TRUE, issuer |-> issuer, subject |-> subject,
          not_valid_before |-> now - 100, not_valid_after |-> now - 100 + LongValidityDays,
          now |-> now ]
  IN  { WithFault(NoCert, "none"),
        WithFault(signed("CN=Android,O=Google Inc.", "CN=Jane Dev,O=Indie Apps"), "none"),
        WithFault(signed("CN=Jane Dev,O=Indie Apps", "CN=Jane Dev,O=Indie Apps"), "none"),
        WithFault(signed("CN=Jane Dev,O=Indie Apps", "CN=Jane Dev,O=Indie Apps"), "parse_error") }

ScanListings ==
  { << "classes.dex", "AndroidManifest.xml" >>,
    << "classes.dex", "lib/armeabi/libnative.so", "assets/config.bin" >> }

\* The uploaded packages: ones the metadata parser reads, ones only the
\* archive reader reads, and one nothing reads.
ScanPackages ==
  { [ parses |-> TRUE, zip_ok |-> TRUE, permissions |-> p, components |-> NoComponents,
      suspicious_features |-> s, cert |-> c,
      file_list |-> << "classes.dex", "AndroidManifest.xml" >> ] :
      p \in ScanPermissions, s \in ScanSuspicious, c \in ScanCertificates }
  \cup { [ parses |-> FALSE, zip_ok |-> TRUE, permissions |-> << >>,
           components |-> NoComponents, suspicious_features |-> << >>,
           cert |-> WithFault(NoCert, "none"), file_list |-> l ] : l \in ScanListings }
  \cup { [ parses |-> FALSE, zip_ok |-> FALSE, permissions |-> << >>,
           components |-> NoComponents, suspicious_features |-> << >>,
           cert |-> WithFault(NoCert, "none"), file_list |-> << >> ] }

\* The components constructed (app.py, module level) and one upload saved.
ScanInit ==
  /\ scan_pc = "uploaded"
  /\ androguard_available \in BOOLEAN
  /\ vt_enabled \in BOOLEAN
  /\ upload \in { [readable |-> TRUE, package |-> p] : p \in ScanPackages }
  /\ vt_reply = NoReply
  /\ analysis_result = NoAnalysis
  /\ vt_result = NoLookup
  /\ scan_result = NoScan
  /\ scan_status = 0
  /\ pred_pc = "ready"
  /\ model_file \in {"missing", "ok"}
  /\ model_available = (model_file = "ok")
  /\ model_response = NoResponse
  /\ accumulator = NotComputed
  /\ ml_result = NoPrediction
  /\ calls = 0
  /\ model_failures = 0

\* The uploads of which only the archive listing is read.
DegradedPackages ==
  { [ parses |-> FALSE, zip_ok |-> TRUE, permissions |-> << >>,
      components |-> NoComponents, suspicious_features |-> << >>,
      cert |-> WithFault(NoCert, "none"), file_list |-> l ] :
      l \in SeqsUpTo(FilePool \cup {"lib/armeabi/libnative.so"}, MaxItems) }

\* The components constructed without a model artifact and one such upload saved.
DegradedInit ==
  /\ scan_pc = "uploaded"
  /\ androguard_available \in BOOLEAN
  /\ vt_enabled \in BOOLEAN
  /\ upload \in { [readable |-> TRUE, package |-> p] : p \in DegradedPackages }
  /\ vt_reply = NoReply
  /\ analysis_result = NoAnalysis
  /\ vt_result = NoLookup
  /\ scan_result = NoScan
  /\ scan_status = 0
  /\ pred_pc = "ready"
  /\ model_file = "missing"
  /\ model_available = FALSE
  /\ model_response = NoResponse
  /\ accumulator = NotComputed
  /\ ml_result = NoPrediction
  /\ calls = 0
  /\ model_failures = 0

\* scan_apk for an upload with no stored result: analysis, prediction,
\* reputation lookup, risk score, verdict and the compiled scan_result (the
\* identifiers and package information copied into it are left out); any
\* exception on the way gives the 500 response.
ScanApk ==
  /\ scan_pc = "uploaded"
  /\ scan_pc' = "responded"
  /\ analysis_result' = analyze(androguard_available, upload.package)
  /\ LET analysis == analysis_result'
     IN  IF ~analysis.success
            THEN /\ scan_status' = 500
                 /\ UNCHANGED <<vt_reply, vt_result, scan_result, pred_vars>>
            ELSE \E resp \in (IF model_available THEN ModelResponses ELSE {NoResponse}) :
                 \E reply \in (IF vt_enabled THEN LookupReplies ELSE {NoReply}) :
                   LET p == predict(model_available, analysis.features, resp)
                       v == check_hash(vt_enabled, reply)
                       risk == calculate_risk_score(analysis, p.value, v.value)
                       verdict == determine_verdict(risk, p.value)
                   IN  /\ model_response' = resp
                       /\ vt_reply' = reply
                       /\ calls' = calls + 1
                       /\ model_failures' =
                            IF model_available /\ model_raises(analysis.features, resp)
                            THEN model_failures + 1 ELSE model_failures
                       /\ pred_pc' = IF p.kind = "return" THEN "returned" ELSE "raised"
                       /\ ml_result' = IF p.kind = "return" THEN p.value ELSE ml_result
                       /\ accumulator' = IF p.kind = "return" /\ RuleBasedResult(p.value)
                                         THEN risk_score(analysis.features) ELSE NotComputed
                       /\ vt_result' = IF p.kind = "return" /\ v.kind = "return"
                                       THEN v.value ELSE vt_result
                       /\ IF p.kind = "return" /\ v.kind = "return"
                          THEN /\ scan_status' = 200
                               /\ scan_result' =
                                    [ verdict |-> verdict,
                                      risk_score |-> risk,
                                      permissions |-> Get(analysis, "permissions", << >>),
                                      dangerous_permissions |->
                                        Get(analysis, "dangerous_permissions", << >>),
                                      suspicious_features |->
                                        Get(analysis, "suspicious_features", << >>),
                                      ml_prediction |->
                                        [ is_malware |-> Get(p.value, "is_malware", FALSE),
                                          confidence |-> Get(p.value, "confidence", 0),
                                          malware_type |-> Get(p.value, "malware_type", "Unknown") ],
                                      virustotal |-> v.value ]
                          ELSE /\ scan_status' = 500
                               /\ UNCHANGED scan_result
                       /\ UNCHANGED <<model_file, model_available>>
  /\ UNCHANGED <<androguard_available, vt_enabled, upload>>
  /\ UNCHANGED <<extract_vars, cert_vars>>
  /\ UNCHANGED <<store_vars, server_vars>>

\* ------------------------------------------------------------------ scan store

\* Python's None.
None == [none |-> TRUE]

\* json.dumps / json.loads.  The text is represented by the value it encodes:
\* every value of a scan result is a str, a number, a bool, a list or a dict
\* with str keys, which json.loads gives back as json.dumps received it.
json_dumps(value) == [json |-> value]

json_loads(text) == text.json

\* calculate_file_hash: the SHA-256 digest of the bytes, taken as injective.
calculate_file_hash(bytes) == [sha256 |-> bytes]

\* INSERT OR REPLACE INTO scans: the rows that conflict with the new row on a
\* UNIQUE column (scan_id, file_hash) are deleted, then the row is inserted.
insert_or_replace(table, row) ==
  {r \in table : r.scan_id # row.scan_id /\ r.file_hash # row.file_hash} \cup {row}

\* DatabaseManager.save_scan: the table after the call and the value returned.
\* fault: sqlite3 raises (locked database, I/O error).  The AUTOINCREMENT id
\* and the columns copied from the result (filename, timestamp, package_name,
\* app_name) are left out.
save_scan(table, result, now, fault) ==
  IF fault
  THEN [table |-> table, returned |-> FALSE]
  ELSE [ table |-> insert_or_replace(table,
                     [ scan_id |-> result.scan_id,
                       file_hash |-> result.file_hash,
                       verdict |-> result.verdict,
                       risk_score |-> result.risk_score,
                       result_json |-> json_dumps(result),
                       created_at |-> now ]),
         returned |-> TRUE ]

\* DatabaseManager.get_scan_by_hash: WHERE file_hash = ? ORDER BY created_at
\* DESC LIMIT 1.
get_scan_by_hash(table, file_hash, fault) ==
  LET matching == {r \in table : r.file_hash = file_hash}
  IN  IF fault \/ matching = {} THEN None
      ELSE json_loads((CHOOSE r \in matching :
                         \A q \in matching : q.created_at <= r.created_at).result_json)

\* ---- inputs of the store and of the service

\* The uploaded files: one the metadata parser reads without findings, and
\* one that requests SMS, contact, location, install and device-admin access.
ServerPackages ==
  { [ parses |-> TRUE, zip_ok |-> TRUE, permissions |-> << >>, components |-> NoComponents,
      suspicious_features |-> << >>, cert |-> WithFault(NoCert, "none"),
      file_list |-> << "classes.dex", "AndroidManifest.xml" >> ],
    [ parses |-> TRUE, zip_ok |-> TRUE,
      permissions |-> << "android.permission.SEND_SMS", "android.permission.READ_SMS",
                         "android.permission.READ_CONTACTS",
                         "android.permission.ACCESS_FINE_LOCATION",
                         "android.permission.INSTALL_PACKAGES",
                         "android.permission.BIND_DEVICE_ADMIN" >>,
      components |-> NoComponents,
      suspicious_features |-> << "Dynamic code loading detected",
                                 "Native code libraries present" >>,
      cert |-> WithFault(NoCert, "none"),
      file_list |-> << "classes.dex", "AndroidManifest.xml" >> ] }

\* datetime.now().strftime('%Y%m%d_%H%M%S') when the clock reads `now` seconds.
Timestamp(now) == "20260101_00000" \o ToString(now)

Filenames == {"app.apk", "notes.txt"}

\* secure_filename: these names have no character it replaces or strips.
secure_filename(filename) == filename

\* allowed_file
allowed_file(filename) ==
  Contains(".", filename) /\ lower(LastSegment(filename)) \in {"apk"}

\* The scan results handed to save_scan.
StoreResults ==
  { [ scan_id |-> Timestamp(0) \o "_" \o name,
      file_hash |-> calculate_file_hash(bytes),
      verdict |-> v,
      risk_score |-> IF v = "Safe" THEN 0 ELSE 76 ] :
      name \in {"app.apk", "game.apk"}, bytes \in ServerPackages, v \in {"Safe", "Malicious"} }

StoreIdle ==
  /\ clock = 0
  /\ rows = {}
  /\ saves = << >>
  /\ fetched = None

\* DatabaseManager.__init__ on a new database file.
StoreInit ==
  /\ clock = 0
  /\ rows = {}
  /\ saves = << >>
  /\ fetched = None

\* One second passes.
Tick ==
  /\ clock < MaxTicks
  /\ clock' = clock + 1
  /\ UNCHANGED <<rows, saves, fetched>>
  /\ UNCHANGED <<extract_vars, cert_vars, pred_vars, scan_vars, server_vars>>

\* DatabaseManager.save_scan called with a scan result.
SaveScan ==
  /\ Len(saves) < MaxSaves
  /\ \E scan \in StoreResults, fault \in BOOLEAN :
       LET s == save_scan(rows, scan, clock, fault)
       IN  /\ rows' = s.table
           /\ saves' = Append(saves, [scan_result |-> scan, returned |-> s.returned])
  /\ UNCHANGED <<clock, fetched>>
  /\ UNCHANGED <<extract_vars, cert_vars, pred_vars, scan_vars, server_vars>>

\* DatabaseManager.get_scan_by_hash called with a file hash.
GetScanByHash ==
  /\ \E bytes \in ServerPackages, fault \in BOOLEAN :
       fetched' = [ file_hash |-> calculate_file_hash(bytes),
                    value |-> get_scan_by_hash(rows, calculate_file_hash(bytes), fault) ]
  /\ UNCHANGED <<clock, rows, saves>>
  /\ UNCHANGED <<extract_vars, cert_vars, pred_vars, scan_vars, server_vars>>

\* ------------------------------------------------------------------ scan service

\* The scan requests, numbered in the order they arrive.
Requests == {1, 2}

NoBytes == [zip_ok |-> FALSE]

\* The local variables of scan_apk before its first statement.
NewRequest ==
  [ pc |-> "new", filename |-> "", bytes |-> NoBytes, timestamp |-> "", unique_filename |-> "",
    file_hash |-> None, cached_result |-> None, analysis_result |-> NoAnalysis,
    model_response |-> NoResponse, ml_result |-> NoPrediction,
    vt_reply |-> NoReply, vt_result |-> NoLookup,
    risk_score |-> NotComputed, scan_result |-> NoScan, saved |-> FALSE,
    status |-> 0, response |-> None ]

\* What the model and the reputation service do during the scans of the service.
ServerResponses ==
  { [raises |-> TRUE, prediction |-> 0, has_proba |-> FALSE, max_proba |-> 0],
    [raises |-> FALSE, prediction |-> 1, has_proba |-> FALSE, max_proba |-> 0] }

ServerReplies ==
  { [outcome |-> "timeout"],
    [ outcome |-> "response", status_code |-> 200,
      data |-> [response_code |-> 1, positives |-> 35, total |-> 70] ] }

EmptyFolder == [p \in {} |-> NoBytes]

ServerIdle ==
  /\ uploads = EmptyFolder
  /\ req = [r \in Requests |-> NewRequest]

\* The components constructed (app.py, module level), the upload folder empty,
\* a new database, no request received yet.
ServerInit ==
  /\ scan_pc = "idle"
  /\ androguard_available \in BOOLEAN
  /\ vt_enabled \in BOOLEAN
  /\ upload = NoUpload
  /\ vt_reply = NoReply
  /\ analysis_result = NoAnalysis
  /\ vt_result = NoLookup
  /\ scan_result = NoScan
  /\ scan_status = 0
  /\ pred_pc = "ready"
  /\ model_file \in {"missing", "ok"}
  /\ model_available = (model_file = "ok")
  /\ model_response = NoResponse
  /\ accumulator = NotComputed
  /\ ml_result = NoPrediction
  /\ calls = 0
  /\ model_failures = 0
  /\ clock = 0
  /\ rows = {}
  /\ saves = << >>
  /\ fetched = None
  /\ uploads = EmptyFolder
  /\ req = [r \in Requests |-> NewRequest]

\* apk_analyzer.analyze(filepath): the file at that path as it is when read.
\* A missing file fails APK() and then os.path.getsize of the fallback.
analyze_file(available, folder, filepath) ==
  IF filepath \in DOMAIN folder
  THEN analyze(available, folder[filepath])
  ELSE [success |-> FALSE, error |-> "Could not analyze APK: FileNotFoundError"]

\* generate_recommendations (the pictographs that open two of the texts are
\* left out).
generate_recommendations(verdict, analysis, ml) ==
  LET dangerous_perms == Get(analysis, "dangerous_permissions", << >>)
      Has(name) == \E j \in 1..Len(dangerous_perms) : dangerous_perms[j] = name
      I(c, text) == IF c THEN << text >> ELSE << >>
  IN  (IF verdict = "Malicious"
       THEN << "DO NOT INSTALL this application",
               "Delete this APK file immediately",
               "This app exhibits clear malicious behavior" >>
       ELSE IF verdict = "Suspicious"
       THEN << "Exercise caution with this application",
               "Review permissions carefully before installing",
               "Consider alternatives from trusted sources" >>
       ELSE << "No immediate threats detected",
               "Always download apps from official sources",
               "Review permissions before installation" >>)
      \o I(Has("SEND_SMS") \/ Has("RECEIVE_SMS"),
           "App can send/receive SMS - potential premium SMS fraud risk")
      \o I(Has("READ_CONTACTS"), "App can access your contacts - privacy concern")
      \o I(Has("ACCESS_FINE_LOCATION"), "App tracks your precise location")
      \o I(Has("RECORD_AUDIO"), "App can record audio - potential eavesdropping risk")

\* The scan_result dict scan_apk compiles (apk_info, copied from the analysis,
\* is left out).
compile_scan_result(q, risk, verdict) ==
  [ scan_id |-> q.unique_filename,
    filename |-> secure_filename(q.filename),
    file_hash |-> q.file_hash,
    timestamp |-> q.timestamp,
    verdict |-> verdict,
    risk_score |-> risk,
    permissions |-> Get(q.analysis_result, "permissions", << >>),
    dangerous_permissions |-> Get(q.analysis_result, "dangerous_permissions", << >>),
    suspicious_features |-> Get(q.analysis_result, "suspicious_features", << >>),
    ml_prediction |->
      [ is_malware |-> Get(q.ml_result, "is_malware", FALSE),
        confidence |-> Get(q.ml_result, "confidence", 0),
        malware_type |-> Get(q.ml_result, "malware_type", "Unknown") ],
    virustotal |-> q.vt_result,
    recommendations |-> generate_recommendations(verdict, q.analysis_result, q.ml_result) ]

\* scan_apk, from the request to file.save: the upload checks, the name made
\* of the second and the file name, the bytes written to the upload folder.
SaveUpload(r) ==
  /\ req[r].pc = "new"
  /\ \A q \in Requests : q < r => req[q].pc # "new"
  /\ \E filename \in Filenames, bytes \in ServerPackages :
       IF ~allowed_file(filename)
       THEN /\ req' = [req EXCEPT ![r] = [@ EXCEPT !.pc = "done", !.filename = filename,
                                                   !.bytes = bytes, !.status = 400]]
            /\ UNCHANGED uploads
       ELSE LET timestamp == Timestamp(clock)
                unique_filename == timestamp \o "_" \o secure_filename(filename)
            IN  /\ req' = [req EXCEPT ![r] = [@ EXCEPT !.pc = "saved", !.filename = filename,
                                                       !.bytes = bytes, !.timestamp = timestamp,
                                                       !.unique_filename = unique_filename]]
                /\ uploads' = (unique_filename :> bytes) @@ uploads
  /\ UNCHANGED store_vars
  /\ UNCHANGED <<extract_vars, cert_vars, pred_vars, scan_vars>>

\* calculate_file_hash(filepath); a missing file raises and the handler
\* answers 500.
HashUpload(r) ==
  /\ req[r].pc = "saved"
  /\ req' = [req EXCEPT ![r] =
               IF req[r].unique_filename \in DOMAIN uploads
               THEN [@ EXCEPT !.pc = "hashed",
                              !.file_hash = calculate_file_hash(uploads[req[r].unique_filename])]
               ELSE [@ EXCEPT !.pc = "done", !.status = 500]]
  /\ UNCHANGED uploads
  /\ UNCHANGED store_vars
  /\ UNCHANGED <<extract_vars, cert_vars, pred_vars, scan_vars>>

\* cached_result = db_manager.get_scan_by_hash(file_hash), returned when found.
LookupCached(r) ==
  /\ req[r].pc = "hashed"
  /\ \E fault \in BOOLEAN :
     \E cached \in {get_scan_by_hash(rows, req[r].file_hash, fault)} :
       req' = [req EXCEPT ![r] =
                 IF cached # None
                 THEN [@ EXCEPT !.pc = "done", !.cached_result = cached, !.status = 200,
                                !.response = [cached |-> TRUE, result |-> cached]]
                 ELSE [@ EXCEPT !.pc = "analyzing"]]
  /\ UNCHANGED uploads
  /\ UNCHANGED store_vars
  /\ UNCHANGED <<extract_vars, cert_vars, pred_vars, scan_vars>>

\* analysis_result = apk_analyzer.analyze(filepath), 500 when it reports failure.
AnalyzeUpload(r) ==
  /\ req[r].pc = "analyzing"
  /\ \E analysis \in {analyze_file(androguard_available, uploads, req[r].unique_filename)} :
       req' = [req EXCEPT ![r] =
                 IF analysis.success
                 THEN [@ EXCEPT !.pc = "predicting", !.analysis_result = analysis]
                 ELSE [@ EXCEPT !.pc = "done", !.analysis_result = analysis, !.status = 500]]
  /\ UNCHANGED uploads
  /\ UNCHANGED store_vars
  /\ UNCHANGED <<extract_vars, cert_vars, pred_vars, scan_vars>>

\* ml_result = ml_predictor.predict(analysis_result['features'])
PredictUpload(r) ==
  /\ req[r].pc = "predicting"
  /\ \E resp \in (IF model_available THEN ServerResponses ELSE {NoResponse}) :
       req' = [req EXCEPT ![r] =
                 [@ EXCEPT !.pc = "checking", !.model_response = resp,
                           !.ml_result = predict(model_available, req[r].analysis_result.features,
                                                 resp).value]]
  /\ UNCHANGED uploads
  /\ UNCHANGED store_vars
  /\ UNCHANGED <<extract_vars, cert_vars, pred_vars, scan_vars>>

\* vt_result = vt_checker.check_hash(file_hash)
CheckReputation(r) ==
  /\ req[r].pc = "checking"
  /\ \E reply \in (IF vt_enabled THEN ServerReplies ELSE {NoReply}) :
       req' = [req EXCEPT ![r] =
                 [@ EXCEPT !.pc = "scoring", !.vt_reply = reply,
                           !.vt_result = check_hash(vt_enabled, reply).value]]
  /\ UNCHANGED uploads
  /\ UNCHANGED store_vars
  /\ UNCHANGED <<extract_vars, cert_vars, pred_vars, scan_vars>>

\* The aggregation started as soon as the prediction is there.
AggregateRisk_before_lookup(r) ==
  /\ req[r].pc \in {"checking", "scoring"}
  /\ \E risk \in {calculate_risk_score(req[r].analysis_result, req[r].ml_result,
                                       req[r].vt_result)} :
       req' = [req EXCEPT ![r] =
                 [@ EXCEPT !.pc = "saving", !.risk_score = risk,
                           !.scan_result =
                              compile_scan_result(req[r], risk,
                                                  determine_verdict(risk, req[r].ml_result))]]
  /\ UNCHANGED uploads
  /\ UNCHANGED store_vars
  /\ UNCHANGED <<extract_vars, cert_vars, pred_vars, scan_vars>>

\* calculate_risk_score, determine_verdict and the scan_result dict.
AggregateRisk(r) ==
  /\ req[r].pc = "scoring"
  /\ \E risk \in {calculate_risk_score(req[r].analysis_result, req[r].ml_result,
                                       req[r].vt_result)} :
       req' = [req EXCEPT ![r] =
                 [@ EXCEPT !.pc = "saving", !.risk_score = risk,
                           !.scan_result =
                              compile_scan_result(req[r], risk,
                                                  determine_verdict(risk, req[r].ml_result))]]
  /\ UNCHANGED uploads
  /\ UNCHANGED store_vars
  /\ UNCHANGED <<extract_vars, cert_vars, pred_vars, scan_vars>>

\* db_manager.save_scan(scan_result)
StoreScan(r) ==
  /\ req[r].pc = "saving"
  /\ \E fault \in BOOLEAN :
     \E s \in {save_scan(rows, req[r].scan_result, clock, fault)} :
       /\ rows' = s.table
       /\ saves' = Append(saves, [scan_result |-> req[r].scan_result, returned |-> s.returned])
       /\ req' = [req EXCEPT ![r] = [@ EXCEPT !.pc = "removing", !.saved = s.returned]]
  /\ UNCHANGED <<clock, fetched>>
  /\ UNCHANGED uploads
  /\ UNCHANGED <<extract_vars, cert_vars, pred_vars, scan_vars>>

\* os.remove(filepath), an error of which is ignored, and the 200 response.
RemoveUpload(r) ==
  /\ req[r].pc = "removing"
  /\ uploads' = [p \in DOMAIN uploads \ {req[r].unique_filename} |-> uploads[p]]
  /\ req' = [req EXCEPT ![r] =
               [@ EXCEPT !.pc = "done", !.status = 200,
                         !.response = [cached |-> FALSE, result |-> req[r].scan_result]]]
  /\ UNCHANGED store_vars
  /\ UNCHANGED <<extract_vars, cert_vars, pred_vars, scan_vars>>

\* ------------------------------------------------------------------ claims: malware classifier

\* predict returned the rule-based strategy's result for a 50-entry vector.
RuleBasedOn50 ==
  pred_pc = "returned" /\ Len(features) = 50 /\ RuleBasedResult(ml_result)

FeatureSet(k) == Truthy(At(features, k))

AnySet(K) == \E k \in K : FeatureSet(k)

AllSet(K) == \A k \in K : FeatureSet(k)

\* The sum the claim gives: one weight per group with any index set, one bonus
\* per compound pattern with all its indices set.
ClaimedAccumulator ==
  LET any(K, w) == IF AnySet(K) THEN w ELSE 0
      all(K, w) == IF AllSet(K) THEN w ELSE 0
  IN  any({1, 2, 3}, 15) + any({4, 5}, 8) + any({6, 7}, 5) + any({10, 11}, 10)
      + any({14, 15, 19}, 20) + any({20}, 18) + any({21}, 10)
      + any({44}, 12) + any({46}, 8) + any({47}, 7)
      + all({1, 10}, 15) + all({0, 4, 6}, 10)

MaxAccumulator == 15 + 8 + 5 + 10 + 20 + 18 + 10 + 12 + 8 + 7 + 15 + 10

\* C8: in the rule-based strategy the malware flag is true exactly when the
\* accumulator is >= 30 and the confidence is min(accumulator/100, 0.95): it
\* never exceeds 0.95, is at least 0.30 when the flag is true, and no smaller
\* accumulator gets a larger confidence.
C8_FlagAndConfidence ==
  RuleBasedOn50 =>
    /\ ml_result.is_malware <=> accumulator >= 30
    /\ ml_result.confidence = (IF accumulator <= 95 THEN accumulator ELSE 95)
    /\ ml_result.confidence <= 95
    /\ ml_result.is_malware => ml_result.confidence >= 30
    /\ \A a \in 0..MaxAccumulator :
         /\ a <= accumulator => confidence_of(a) <= ml_result.confidence
         /\ a >= accumulator => confidence_of(a) >= ml_result.confidence

\* The cap is reached.
C8_Witness ==
  /\ RuleBasedOn50
  /\ accumulator > 95
  /\ ml_result.confidence = 95
  /\ ml_result.is_malware = TRUE

C10_FamilyOrder ==
  (pred_pc = "returned" /\ Len(features) = 50 /\ ml_result.is_malware = TRUE) =>
    ml_result.malware_type =
      (IF AnySet({1, 2, 3}) THEN "SMS Trojan / Premium SMS Fraud"
       ELSE IF FeatureSet(16) /\ FeatureSet(20) THEN "Banking Trojan"
       ELSE IF AnySet({4, 6, 8}) /\ FeatureSet(0) THEN "Spyware / Information Stealer"
       ELSE IF FeatureSet(20) /\ FeatureSet(16) THEN "Ransomware"
       ELSE IF FeatureSet(0) /\ ~AnySet(1..9) THEN "Adware"
       ELSE IF AnySet({44, 47}) THEN "Backdoor / Remote Access Trojan"
       ELSE "Generic Malware")

\* C11: the label 'Adware' is returned only for vectors with the INTERNET flag
\* (index 0) set and no other sensitive permission flag set; the claim names
\* INSTALL_PACKAGES (14) and BIND_DEVICE_ADMIN (20) among the other sensitive
\* permissions, next to the indices 1-9 the code tests.
C11_AdwareOnlyInternet ==
  (pred_pc = "returned" /\ Len(features) = 50 /\ ml_result.malware_type = "Adware") =>
    /\ FeatureSet(0)
    /\ ~AnySet(1..9)
    /\ ~AnySet({14, 20})

\* C12: when no trained model artifact is available at construction (the file
\* is missing or its load fails), the predictor is left without a model, every
\* later call of predict on a 50-entry vector returns the rule-based strategy's
\* result with method 'rule_based', and the strategy choice made at
\* construction never changes afterwards.
C12_RuleBasedForLife ==
  [][ /\ (pred_pc # "new" => model_available' = model_available)
      /\ (model_file # "ok" => ~model_available')
      /\ (model_file # "ok" /\ calls' > calls /\ Len(features') = 50) =>
           (pred_pc' = "returned" /\ RuleBasedResult(ml_result')) ]_vars

\* A second call on a predictor whose artifact failed to load.
C12_Witness ==
  /\ model_file = "corrupt"
  /\ calls = 2
  /\ pred_pc = "returned"
  /\ Len(features) = 50
  /\ RuleBasedResult(ml_result)
  /\ ml_result.is_malware = TRUE

\* C13: when the model strategy raises during a call (reshaping, predict,
\* predict_proba, or the family inference of the model path), that call does
\* not raise: it returns what the predictor without a model returns for the
\* same vector; for a feature vector (50 entries) this is exactly the
\* rule-based strategy's result, with method 'rule_based' (indices 1 and 10
\* set: malware, confidence 0.40); and the model stays selected.
C13_FallbackOnModelError ==
  [][ (model_available /\ calls' > calls /\ model_raises(features', model_response')) =>
        /\ pred_pc' = "returned"
        /\ model_available'
        /\ model_failures' = model_failures + 1
        /\ ml_result' = predict(FALSE, features', NoResponse).value
        /\ Len(features') = 50 =>
             /\ ml_result' = predict_rule_based(features').value
             /\ ml_result'.method = "rule_based"
             /\ accumulator' = risk_score(features')
        /\ features' = VectorOf(50, {1, 10}) =>
             /\ ml_result'.is_malware = TRUE
             /\ ml_result'.confidence = 40
             /\ ml_result'.malware_type = "SMS Trojan / Premium SMS Fraud" ]_vars

\* The call after one in which the model raised is answered by the model.
C13_Witness ==
  /\ model_available
  /\ calls = 2
  /\ model_failures = 1
  /\ pred_pc = "returned"
  /\ ~model_response.raises
  /\ Len(features) = 50
  /\ "method" \in DOMAIN ml_result
  /\ ml_result.method = "ml_model"

\* The labels of the family taxonomy other than 'Ransomware'.
ProducibleLabels ==
  { "Benign", "SMS Trojan / Premium SMS Fraud", "Banking Trojan",
    "Spyware / Information Stealer", "Adware", "Backdoor / Remote Access Trojan",
    "Generic Malware" }

\* C28: for every feature vector and either value of the malware flag,
\* _determine_malware_type never returns 'Ransomware' (its condition, indices
\* 20 and 16 both set, is the earlier 'Banking Trojan' condition), and every
\* other label of the taxonomy is returned for some vector.
C28_NoRansomware ==
  /\ \A b \in BOOLEAN : determine_malware_type(features, b) # "Ransomware"
  /\ "malware_type" \in DOMAIN ml_result => ml_result.malware_type # "Ransomware"
  /\ pred_pc = "new" =>
       \A label \in ProducibleLabels :
         \E f \in InputVectors, b \in BOOLEAN : determine_malware_type(f, b) = label

\* Device admin and the overlay-like signal, no SMS permission: Banking Trojan.
C28_Witness ==
  /\ pred_pc = "returned"
  /\ Len(features) = 50
  /\ FeatureSet(20) /\ FeatureSet(16)
  /\ ml_result.is_malware
  /\ ml_result.malware_type = "Banking Trojan"

\* ------------------------------------------------------------------ claims: risk aggregator

\* calculate_risk_score and determine_verdict returned.
Scored == scan_pc \in {"scored", "responded"} /\ "risk_score" \in DOMAIN scan_result

\* C14: for every prediction (malware flag, confidence in [0,1]), every
\* dangerous-permission count >= 0, every suspicious-feature count >= 0 and
\* every reputation record the lookup returns (available or not, any
\* non-negative positives and total), calculate_risk_score returns an integer
\* in [0,100].
C14_ScoreInRange ==
  Scored => scan_result.risk_score \in 0..100

\* The sum 40 + 20 + 20 + 30 is brought back to 100.
C14_Witness ==
  /\ Scored
  /\ ml_result.is_malware /\ ml_result.confidence = Unit
  /\ Len(analysis_result.dangerous_permissions) >= 5
  /\ Len(analysis_result.suspicious_features) >= 4
  /\ Get(vt_result, "positives", 0) = 3 /\ Get(vt_result, "total", 0) = 2
  /\ scan_result.risk_score = 100

\* C15: each term of the risk sum is capped before summing: the classifier
\* term is at most 40, the dangerous-permission term at most 20, the
\* suspicious-feature term at most 20 and the external-reputation term at most
\* 20, for every reputation record the lookup returns (total = 0 and
\* positives > total included).
C15_TermsCapped ==
  Scored =>
    /\ ml_term(ml_result) <= 40 * Unit
    /\ dangerous_term(analysis_result) <= 20
    /\ suspicious_term(analysis_result) <= 20
    /\ vt_term(vt_result)[1] <= 20 * vt_term(vt_result)[2]

VerdictRank(v) ==
  CASE v = "Safe" -> 0 [] v = "Suspicious" -> 1 [] v = "Malicious" -> 2

\* The records check_hash returns when it obtained no reputation signal.
NoSignal == {r \in Reputations : ~r.available}

\* C16: with the other inputs held fixed, the risk score computed with a
\* reputation signal is greater than or equal to the score computed without
\* one; so removing the signal never raises the verdict, and never turns Safe
\* into Malicious.
C16_ReputationMonotone ==
  (Scored /\ vt_result.available) =>
    \A r \in NoSignal :
      LET without == calculate_risk_score(analysis_result, ml_result, r)
      IN  /\ without <= scan_result.risk_score
          /\ VerdictRank(determine_verdict(without, ml_result))
               <= VerdictRank(scan_result.verdict)
          /\ scan_result.verdict = "Safe" => determine_verdict(without, ml_result) = "Safe"

\* The signal lifts a Suspicious package to Malicious.
C16_Witness ==
  /\ Scored
  /\ vt_result.available
  /\ vt_result.detected
  /\ scan_result.verdict = "Malicious"
  /\ \A r \in NoSignal :
       determine_verdict(calculate_risk_score(analysis_result, ml_result, r), ml_result)
         = "Suspicious"

\* C17: determine_verdict is a function of the risk score alone: it returns
\* 'Malicious' iff score >= 70, 'Suspicious' iff 40 <= score < 70 and 'Safe'
\* iff score < 40, whatever prediction is passed to it.
C17_VerdictByScore ==
  Scored =>
    /\ scan_result.verdict = "Malicious" <=> scan_result.risk_score >= 70
    /\ scan_result.verdict = "Suspicious" <=>
         (40 <= scan_result.risk_score /\ scan_result.risk_score < 70)
    /\ scan_result.verdict = "Safe" <=> scan_result.risk_score < 40
    /\ \A m \in Predictions :
         determine_verdict(scan_result.risk_score, m) = scan_result.verdict

\* A malware prediction of confidence 0.95 with nothing else: score 38, Safe.
C17_Witness ==
  /\ Scored
  /\ ml_result.is_malware
  /\ ml_result.confidence = 95
  /\ scan_result.risk_score = 38
  /\ scan_result.verdict = "Safe"

\* The engine count that divides the positives in the claimed formula: total
\* when a reputation signal was obtained, 1 when there is no reputation term.
ClaimedEngines ==
  IF vt_result.available /\ vt_result.total > 0 THEN vt_result.total ELSE 1

\* The claimed sum, in units of 1 / (100 * ClaimedEngines):
\* (confidence * 40 if malware) + min(4 * dangerous, 20) + min(5 * suspicious, 20)
\* + (positives / total) * 20 when a reputation signal was obtained.
ClaimedSum ==
  LET d == Len(analysis_result.dangerous_permissions)
      s == Len(analysis_result.suspicious_features)
      classifier == IF ml_result.is_malware THEN ml_result.confidence * 40 ELSE 0
      counts == (IF 4 * d < 20 THEN 4 * d ELSE 20) + (IF 5 * s < 20 THEN 5 * s ELSE 20)
      positives == IF vt_result.available THEN vt_result.positives ELSE 0
  IN  (classifier + 100 * counts) * ClaimedEngines + 100 * 20 * positives

ClaimedScore ==
  LET whole == ClaimedSum \div (100 * ClaimedEngines)
  IN  IF whole > 100 THEN 100 ELSE whole

\* C18: the risk score is the integer truncation of (confidence*40 if the
\* malware flag is set, else 0) + min(4*dangerous, 20) + min(5*suspicious, 20)
\* + (positives/total)*20 when a reputation signal was obtained, clamped to
\* [0,100] (the quotient positives/total is defined for total > 0; a record
\* with no positives contributes 0).  Malware with confidence 0.9, 5 dangerous
\* permissions, 2 suspicious features and 35/70 detections gives 76 and
\* Malicious; an all-zero input with no reputation signal gives 0 and Safe.
C18_ScoreFormula ==
  (Scored /\ (vt_result.available => vt_result.total > 0 \/ vt_result.positives = 0)) =>
    /\ scan_result.risk_score = ClaimedScore
    /\ ( /\ ml_result.is_malware /\ ml_result.confidence = 90
         /\ Len(analysis_result.dangerous_permissions) = 5
         /\ Len(analysis_result.suspicious_features) = 2
         /\ vt_result.available /\ vt_result.positives = 35 /\ vt_result.total = 70 )
       => (scan_result.risk_score = 76 /\ scan_result.verdict = "Malicious")
    /\ ( /\ ~ml_result.is_malware
         /\ Len(analysis_result.dangerous_permissions) = 0
         /\ Len(analysis_result.suspicious_features) = 0
         /\ ~vt_result.available )
       => (scan_result.risk_score = 0 /\ scan_result.verdict = "Safe")

\* The 35/70 example.
C18_Witness ==
  /\ Scored
  /\ ml_result.is_malware /\ ml_result.confidence = 90
  /\ Len(analysis_result.dangerous_permissions) = 5
  /\ Len(analysis_result.suspicious_features) = 2
  /\ vt_result.available /\ vt_result.positives = 35 /\ vt_result.total = 70
  /\ scan_result.risk_score = 76
  /\ scan_result.verdict = "Malicious"

\* C27: for every scan whose reputation record has positives <= total, the
\* permission, suspicious-feature and reputation terms together are at most
\* 60, so a verdict of 'Malicious' implies that the malware flag is true with
\* confidence at least 0.25.
C27_MaliciousNeedsClassifier ==
  (Scored /\ Get(vt_result, "positives", 0) <= Get(vt_result, "total", 0)) =>
    /\ LET rep == vt_term(vt_result)
       IN  (dangerous_term(analysis_result) + suspicious_term(analysis_result)) * rep[2] + rep[1]
             <= 60 * rep[2]
    /\ scan_result.verdict = "Malicious" =>
         /\ ml_result.is_malware
         /\ ml_result.confidence >= 25

\* Confidence 0.25 with every other term at its cap: 10 + 60 = 70, Malicious.
C27_Witness ==
  /\ Scored
  /\ ml_result.is_malware
  /\ ml_result.confidence = 25
  /\ Get(vt_result, "positives", 0) = 70
  /\ Get(vt_result, "total", 0) = 70
  /\ scan_result.risk_score = 70
  /\ scan_result.verdict = "Malicious"

\* ------------------------------------------------------------------ claims: scan handler

\* scan_apk answered with a scan result.
ScanDone == scan_pc = "responded" /\ scan_status = 200

\* The analysis result with another certificate-trust result, and with none.
WithTrust(analysis, trust) ==
  [k \in DOMAIN analysis \cup {"source_verification"} |->
     IF k = "source_verification" THEN trust ELSE analysis[k]]

WithoutTrust(analysis) ==
  [k \in DOMAIN analysis \ {"source_verification"} |-> analysis[k]]

TrustResults == {verify_source(c).value : c \in ScanCertificates}

\* C19: the risk score and the verdict depend only on the prediction, the
\* dangerous-permission count, the suspicious-feature count and the reputation
\* signal: a scan that differs only in the certificate-trust result (tier,
\* trust score, warnings, or no result at all) gets the same score and the
\* same verdict.  The scan of the same package under another certificate is
\* recomputed where no lookup was made: the lookup enters neither the
\* analysis nor the prediction.
C19_TrustIrrelevant ==
  ScanDone =>
    /\ \A a \in {WithoutTrust(analysis_result)}
                \cup {WithTrust(analysis_result, trust) : trust \in TrustResults} :
         LET risk == calculate_risk_score(a, ml_result, vt_result)
         IN  /\ risk = scan_result.risk_score
             /\ determine_verdict(risk, ml_result) = scan_result.verdict
    /\ ~vt_enabled =>
         \A c \in ScanCertificates \ {upload.package.cert} :
           LET other == analyze(androguard_available, [upload.package EXCEPT !.cert = c])
               m == predict(model_available, other.features, model_response).value
               risk == calculate_risk_score(other, m, vt_result)
           IN  /\ other.success
               /\ WithoutTrust(other) = WithoutTrust(analysis_result)
               /\ m = ml_result
               /\ risk = scan_result.risk_score
               /\ determine_verdict(risk, m) = scan_result.verdict

\* A package signed with a Play Store certificate is found Malicious.
C19_Witness ==
  /\ ScanDone
  /\ "source_verification" \in DOMAIN analysis_result
  /\ analysis_result.source_verification.verified
  /\ analysis_result.source_verification.source = "Google Play Store"
  /\ analysis_result.source_verification.trust_score = Unit
  /\ scan_result.verdict = "Malicious"

\* The reputation lookup of this scan failed: no API key, a timeout, another
\* exception of the request, a body that is not JSON, a report the parser
\* fails on, the rate limit (204) or another status that is not 200.
LookupFailed ==
  \/ ~vt_enabled
  \/ vt_reply.outcome \in {"timeout", "error"}
  \/ /\ vt_reply.outcome = "response"
     /\ \/ vt_reply.status_code # 200
        \/ "data" \notin DOMAIN vt_reply
        \/ "scans" \in DOMAIN vt_reply.data

\* C20: every failure of the reputation lookup is returned by check_hash as
\* an 'unavailable' record, never raised, and the scan still completes: its
\* risk score is the (truncated, clamped) sum of the classifier, dangerous-
\* permission and suspicious-feature terms, and it has a verdict.
C20_LookupFailureTolerated ==
  (scan_pc = "responded" /\ analysis_result.success /\ LookupFailed) =>
    /\ scan_status = 200
    /\ vt_result.available = FALSE
    /\ "detected" \notin DOMAIN vt_result
    /\ scan_result.virustotal = vt_result
    /\ LET d == Len(analysis_result.dangerous_permissions)
           s == Len(analysis_result.suspicious_features)
           classifier == IF ml_result.is_malware THEN ml_result.confidence * 40 ELSE 0
           counts == (IF 4 * d < 20 THEN 4 * d ELSE 20) + (IF 5 * s < 20 THEN 5 * s ELSE 20)
       IN  scan_result.risk_score = (classifier + 100 * counts) \div 100
    /\ scan_result.verdict \in {"Safe", "Suspicious", "Malicious"}

\* The request fails with a connection error; the scan answers Suspicious.
C20_Witness ==
  /\ ScanDone
  /\ vt_enabled
  /\ vt_reply.outcome = "error"
  /\ vt_result.available = FALSE
  /\ ml_result.is_malware
  /\ scan_result.risk_score >= 40
  /\ scan_result.verdict = "Suspicious"

\* The structured parser is missing, or it raised on this upload.
FullAnalysisFailed == ~androguard_available \/ ~upload.package.parses

\* C21: a failure of the structured package parser (library missing, or an
\* exception during the full analysis) is never propagated: analyze returns
\* success with the minimal feature vector built from the archive listing
\* whenever the package opens as an archive, and reports failure ('Could not
\* analyze APK') only when the archive listing cannot be read.
C21_AnalyzeDegrades ==
  scan_pc = "responded" =>
    /\ analysis_result.success = upload.package.zip_ok
    /\ (FullAnalysisFailed /\ upload.package.zip_ok) =>
         /\ analysis_result.features = build_minimal_feature_vector(upload.package.file_list)
         /\ analysis_result.permissions = << >>
         /\ analysis_result.dangerous_permissions = << >>
         /\ "note" \in DOMAIN analysis_result
    /\ ~analysis_result.success =>
         /\ ~upload.package.zip_ok
         /\ analysis_result.error = "Could not analyze APK: BadZipFile"
         /\ scan_status = 500

\* The parser is installed and raises on an archive with a native library:
\* the scan completes on the minimal vector.
C21_Witness ==
  /\ ScanDone
  /\ androguard_available
  /\ ~upload.package.parses
  /\ upload.package.zip_ok
  /\ analysis_result.success
  /\ At(analysis_result.features, 1) = Unit
  /\ analysis_result.features = build_minimal_feature_vector(upload.package.file_list)

\* C22: every successfully completed scan returns a scan result that contains
\* the prediction, the certificate-trust result computed for the package, the
\* risk score and the verdict.
C22_ResultContents ==
  ScanDone =>
    /\ scan_result.ml_prediction.is_malware = ml_result.is_malware
    /\ scan_result.ml_prediction.confidence = ml_result.confidence
    /\ scan_result.ml_prediction.malware_type = ml_result.malware_type
    /\ scan_result.risk_score = calculate_risk_score(analysis_result, ml_result, vt_result)
    /\ scan_result.verdict = determine_verdict(scan_result.risk_score, ml_result)
    /\ "source_verification" \in DOMAIN analysis_result =>
         /\ "source_verification" \in DOMAIN scan_result
         /\ scan_result.source_verification = analysis_result.source_verification

\* The scan ran on the archive listing alone and the rule-based strategy answered.
DegradedRuleBased ==
  /\ scan_pc = "responded"
  /\ analysis_result.success
  /\ "note" \in DOMAIN analysis_result
  /\ RuleBasedResult(ml_result)

\* C26: in degraded mode (minimal feature vector, empty permission lists) with
\* the rule-based strategy the accumulator is 0 or 15 for every archive
\* listing, so the malware flag is false and the label 'Benign'; the risk
\* score is at most 15 plus the reputation term, and with positives <= total
\* the verdict is 'Safe' whatever the reputation signal reports.
C26_DegradedIsSafe ==
  DegradedRuleBased =>
    /\ analysis_result.features = build_minimal_feature_vector(upload.package.file_list)
    /\ accumulator \in {0, 15}
    /\ ~ml_result.is_malware
    /\ ml_result.malware_type = "Benign"
    /\ scan_status = 200
    /\ LET rep == vt_term(vt_result)
       IN  scan_result.risk_score * rep[2] <= 15 * rep[2] + rep[1]
    /\ Get(vt_result, "positives", 0) <= Get(vt_result, "total", 0) =>
         scan_result.verdict = "Safe"

\* A listing with native code and assets that every engine detects: 35, Safe.
C26_Witness ==
  /\ DegradedRuleBased
  /\ accumulator = 15
  /\ Len(analysis_result.suspicious_features) = 3
  /\ Get(vt_result, "positives", 0) = 70
  /\ Get(vt_result, "total", 0) = 70
  /\ scan_result.risk_score = 35
  /\ scan_result.verdict = "Safe"

\* ------------------------------------------------------------------ claims: scan service and store

\* The request was answered with a scan result.
Answered(r) == req[r].pc = "done" /\ req[r].status = 200

\* C23: risk score and verdict are recomputed for every scan request from
\* that request's own analysis, prediction and reputation lookup; the values
\* returned never come from state persisted by an earlier request, repeated
\* uploads of the same bytes included.
C23_RecomputedPerScan ==
  \A r \in Requests :
    Answered(r) =>
      /\ req[r].analysis_result.success
      /\ req[r].response.result.risk_score =
           calculate_risk_score(req[r].analysis_result, req[r].ml_result, req[r].vt_result)
      /\ req[r].response.result.verdict =
           determine_verdict(req[r].response.result.risk_score, req[r].ml_result)
      /\ req[r].response.result.virustotal = req[r].vt_result

\* The scan result request r gets when it is served alone on an empty store,
\* the model and the reputation service answering as they did.
AloneResult(r) ==
  LET analysis == analyze(androguard_available, req[r].bytes)
      ml == predict(model_available, analysis.features, req[r].model_response).value
      vt == check_hash(vt_enabled, req[r].vt_reply).value
      risk == calculate_risk_score(analysis, ml, vt)
  IN  compile_scan_result([req[r] EXCEPT !.file_hash = calculate_file_hash(req[r].bytes),
                                         !.analysis_result = analysis,
                                         !.ml_result = ml,
                                         !.vt_result = vt],
                          risk, determine_verdict(risk, ml))

\* C24: concurrently executing scans do not interfere: under every
\* interleaving of two requests (two uploads of the same file name in the same
\* second included) each request hashes and analyses only its own uploaded
\* bytes, and its returned result and its stored record are what it gets when
\* run alone.
C24_NoInterference ==
  \A r \in Requests :
    /\ req[r].file_hash # None => req[r].file_hash = calculate_file_hash(req[r].bytes)
    /\ req[r].analysis_result # NoAnalysis =>
         req[r].analysis_result = analyze(androguard_available, req[r].bytes)
    /\ (req[r].pc = "done" /\ req[r].status # 400 /\ req[r].cached_result = None) =>
         /\ req[r].status = 200
         /\ req[r].response.result = AloneResult(r)
    /\ (req[r].pc = "removing" /\ req[r].saved) =>
         get_scan_by_hash(rows, calculate_file_hash(req[r].bytes), FALSE) = AloneResult(r)

\* C25: within one scan the risk aggregation runs only after the classifier
\* and the reputation lookup have each returned a result or their degraded
\* output: calculate_risk_score is never reached with either result missing,
\* and never when the analysis reported failure.
C25_AggregationLast ==
  \A r \in Requests :
    /\ req[r].risk_score # NotComputed =>
         /\ req[r].analysis_result.success
         /\ "is_malware" \in DOMAIN req[r].ml_result
         /\ "confidence" \in DOMAIN req[r].ml_result
         /\ "available" \in DOMAIN req[r].vt_result
         /\ req[r].risk_score =
              calculate_risk_score(req[r].analysis_result, req[r].ml_result, req[r].vt_result)
    /\ req[r].pc \in {"predicting", "checking"} => req[r].risk_score = NotComputed
    /\ (req[r].analysis_result # NoAnalysis /\ ~req[r].analysis_result.success) =>
         /\ req[r].pc = "done"
         /\ req[r].status = 500
         /\ req[r].ml_result = NoPrediction
         /\ req[r].vt_result = NoLookup
         /\ req[r].risk_score = NotComputed

\* The model raised and the lookup timed out: the aggregation ran on the
\* rule-based prediction and the 'unavailable' record.
C25_Witness ==
  \E r \in Requests :
    /\ req[r].pc = "saving"
    /\ model_available
    /\ req[r].model_response.raises
    /\ req[r].ml_result.method = "rule_based"
    /\ req[r].vt_reply.outcome = "timeout"
    /\ req[r].vt_result.available = FALSE
    /\ req[r].risk_score # NotComputed
    /\ req[r].scan_result.verdict = "Suspicious"

\* The save_scan calls that returned True for a file hash, and the argument
\* of the last of them.
SavedAt(h) == {i \in 1..Len(saves) : saves[i].returned /\ saves[i].scan_result.file_hash = h}

LastSaved(h) == saves[CHOOSE i \in SavedAt(h) : \A j \in SavedAt(h) : j <= i].scan_result

\* C30: after any sequence of save_scan calls the store holds at most one
\* record per file hash, and every result saved successfully stays
\* retrievable by get_scan_by_hash under its file hash, which returns the
\* most recently saved result for that hash; a save for another file hash
\* never removes it, even when the two scans share the scan_id.
C30_StoreKeepsResults ==
  /\ \A r1 \in rows : \A r2 \in rows : r1.file_hash = r2.file_hash => r1 = r2
  /\ \A bytes \in ServerPackages :
       LET h == calculate_file_hash(bytes)
       IN  SavedAt(h) # {} => get_scan_by_hash(rows, h, FALSE) = LastSaved(h)

\* ------------------------------------------------------------------ specifications

\* The feature extractor applied to one input.
NextExtract ==
  \/ BuildFeatureVector
  \/ BuildMinimalFeatureVector

InitExtract == ExtractInit /\ CertIdle /\ PredictIdle /\ ScanIdle /\ StoreIdle /\ ServerIdle

SpecExtract == InitExtract /\ [][NextExtract]_vars

\* The certificate trust verifier applied to one certificate.
NextCert == VerifySource

InitCert == ExtractIdle /\ CertInit /\ PredictIdle /\ ScanIdle /\ StoreIdle /\ ServerIdle

SpecCert == InitCert /\ [][NextCert]_vars

\* The classifier: construction, then the calls of predict.
NextPredict ==
  \/ LoadModel
  \/ Predict

InitPredict == ExtractIdle /\ CertIdle /\ PredictInit /\ ScanIdle /\ StoreIdle /\ ServerIdle

SpecPredict == InitPredict /\ [][NextPredict]_vars

\* The risk aggregator applied to one set of arguments.
NextRisk == CalculateRiskScore

InitRisk == ExtractIdle /\ CertIdle /\ RiskInit /\ StoreIdle /\ ServerIdle

SpecRisk == InitRisk /\ [][NextRisk]_vars

\* The scan handler serving one upload.
NextScan == ScanApk

InitScan == ExtractIdle /\ CertIdle /\ ScanInit /\ StoreIdle /\ ServerIdle

SpecScan == InitScan /\ [][NextScan]_vars

\* The scan handler serving one upload of which only the listing is read.
InitDegraded == ExtractIdle /\ CertIdle /\ DegradedInit /\ StoreIdle /\ ServerIdle

SpecDegraded == InitDegraded /\ [][NextScan]_vars

\* The scan store: save_scan and get_scan_by_hash calls as time passes.
NextStore ==
  \/ SaveScan
  \/ GetScanByHash
  \/ Tick

InitStore == ExtractIdle /\ CertIdle /\ PredictIdle /\ ScanIdle /\ StoreInit /\ ServerIdle

SpecStore == InitStore /\ [][NextStore]_vars

\* The service: two scan requests served by threads of one process.
NextServer ==
  \/ \E r \in Requests :
       \/ SaveUpload(r)
       \/ HashUpload(r)
       \/ LookupCached(r)
       \/ AnalyzeUpload(r)
       \/ PredictUpload(r)
       \/ CheckReputation(r)
       \/ AggregateRisk(r)
       \/ StoreScan(r)
       \/ RemoveUpload(r)
  \/ Tick

InitServer == ExtractIdle /\ CertIdle /\ ServerInit

SpecServer == InitServer /\ [][NextServer]_vars

====
